---- MODULE Spec2Model ----
(***************************************************************************)
(* VibeSensor ESP32 node firmware (firmware/esp): the frame queue, the     *)
(* cumulative-acknowledgment retransmission engine and the services of    *)
(* the cooperative loop() that touch them.                                 *)
(*                                                                         *)
(* The firmware is single-threaded: every service called from loop() runs  *)
(* to completion, so each service is one atomic action.  Time is the only  *)
(* thing that moves between two services; millis() is the variable now_ms. *)
(***************************************************************************)
EXTENDS Integers, Sequences, FiniteSets, TLC

(***************************************************************************)
(* Build configuration.  These are the -D build flags of main.cpp          *)
(* (VIBESENSOR_MAX_UDP_PAYLOAD, VIBESENSOR_FRAME_SAMPLES,                  *)
(* VIBESENSOR_FRAME_QUEUE_LEN_TARGET, VIBESENSOR_FRAME_QUEUE_LEN_MIN); the *)
(* model is built with a small datagram, a small frame and a small queue.  *)
(* The configured frame size is larger than what the datagram can carry,   *)
(* so the clamp of kFrameSamples is exercised.                             *)
(***************************************************************************)
VIBESENSOR_MAX_UDP_PAYLOAD == 37
VIBESENSOR_FRAME_SAMPLES == 3
VIBESENSOR_FRAME_QUEUE_LEN_TARGET == 2
VIBESENSOR_FRAME_QUEUE_LEN_MIN == 2

(* Bounds of the exploration. *)
MaxFrames == 3
MaxQueueLen == 4
MaxAckBatch == 2
MaxNowMs == 120
MaxRxBatch == 1
MaxParseErrors == 1
MaxWraps == 1
MaxSeqFrames == 11
MaxNowUs == 25000
MaxSchedFrames == 4
MaxMissed == 4
MaxCtlFrames == 1
MaxHelloNowMs == 8000
MaxHelloFrames == 3
MaxLinkNowMs == 33000
WrapAheadMs == 8000
MaxDropMs == 3000
MaxEarlyAttempts == 1
MaxFailures == 300
MaxSensorNowMs == 15000
MaxSensorFrames == 1
MaxReadErrors == 6
MaxInboundFrames == 3
MaxFaults == 260
MaxPending == 2

(* Time that may pass between two services (ms): just below and exactly    *)
(* the retransmit interval.                                                *)
TickMs == {119, 120}
DelayMs == {3}

(***************************************************************************)
(* Program constants.                                                      *)
(***************************************************************************)
kClientIdBytes == 6
kDataHeaderBytes == 1 + 1 + kClientIdBytes + 4 + 8 + 2
kMaxDatagramBytes == VIBESENSOR_MAX_UDP_PAYLOAD
kFrameSamplesMaxByDatagram == (kMaxDatagramBytes - kDataHeaderBytes) \div 6
kConfiguredFrameSamples == VIBESENSOR_FRAME_SAMPLES
(* Faulty variant of kFrameSamples: the configured value, not clamped. *)
kFrameSamples_Unclamped == kConfiguredFrameSamples

kFrameSamples ==
    IF kConfiguredFrameSamples = 0
    THEN 1
    ELSE IF kConfiguredFrameSamples > kFrameSamplesMaxByDatagram
         THEN kFrameSamplesMaxByDatagram
         ELSE kConfiguredFrameSamples
kFrameQueueLenTarget == VIBESENSOR_FRAME_QUEUE_LEN_TARGET
kFrameQueueLenMin == VIBESENSOR_FRAME_QUEUE_LEN_MIN
kMaxTxFramesPerLoop == 2
kDataRetransmitIntervalMs == 120

(* The sampling rate and the scheduler's constants. *)
VIBESENSOR_SAMPLE_RATE_HZ == 400
kSampleRateMinHz == 25
kSampleRateMaxHz == 3200
kConfiguredSampleRateHz == VIBESENSOR_SAMPLE_RATE_HZ
clamp_sample_rate(configured_hz, min_hz, max_hz) ==
    IF configured_hz < min_hz
    THEN min_hz
    ELSE IF configured_hz > max_hz THEN max_hz ELSE configured_hz
kSampleRateHz == clamp_sample_rate(kConfiguredSampleRateHz, kSampleRateMinHz, kSampleRateMaxHz)
kMaxCatchUpSamplesPerLoop == 8
(* #define VIBESENSOR_ENABLE_SYNTH_FALLBACK 0: the default policy. *)
VIBESENSOR_ENABLE_SYNTH_FALLBACK == 0
kMaxIdentifyDurationMs == 10000
kHelloIntervalMs == 2000
VIBESENSOR_WIFI_RETRY_INTERVAL_MS == 4000
kWifiRetryIntervalMs == VIBESENSOR_WIFI_RETRY_INTERVAL_MS
kWifiRetryIntervalMaxMs == 60000
kSensorReadBatchSamples == 8
kSensorReinitErrorThreshold == 3
kSensorReinitCooldownMs == 5000
kControlPortBase == 9010
kIdentifyBlinkPeriodMs == 300

(***************************************************************************)
(* uint32_t arithmetic.  A uint32_t is the pair <<hi, lo>> of its 16-bit   *)
(* halves, so that sequence numbers keep their 32-bit width: wrap-around   *)
(* and the sign bit of a difference are those of the C++ code.             *)
(***************************************************************************)
Half == 2^16

U32(n) == <<n \div Half, n % Half>>

U32Add(a, b) ==
    LET lo == a[2] + b[2]
    IN  <<(a[1] + b[1] + (lo \div Half)) % Half, lo % Half>>

U32Sub(a, b) ==
    LET lo == a[2] - b[2]
        borrow == IF lo < 0 THEN 1 ELSE 0
    IN  <<(a[1] - b[1] - borrow) % Half, lo % Half>>

(* Faulty variant of I32LeZero: the test is < 0. *)
I32LeZero_Strict(d) == d[1] >= Half \div 2

(* static_cast<int32_t>(d) <= 0: the sign bit is set, or d is zero. *)
I32LeZero(d) == d[1] >= Half \div 2 \/ d = <<0, 0>>

(* Faulty variant of seq_less_or_equal: the raw unsigned comparison. *)
seq_less_or_equal_Raw(lhs, rhs) ==
    lhs[1] < rhs[1] \/ (lhs[1] = rhs[1] /\ lhs[2] <= rhs[2])

(* static_cast<int32_t>(lhs - rhs) <= 0 *)
seq_less_or_equal(lhs, rhs) == I32LeZero(U32Sub(lhs, rhs))

(***************************************************************************)
(* Wire codec, as far as the transport service needs it.                   *)
(***************************************************************************)
kProtoVersion == 1
kMsgHello == 1
kMsgData == 2
kMsgCmd == 3
kMsgAck == 4
kMsgDataAck == 5
kCmdIdentify == 1
kCmdSyncClock == 2
kHelloFixedBytes == 1 + 1 + kClientIdBytes + 2 + 2 + 2 + 1 + 1 + 4
kAckBytes == 1 + 1 + kClientIdBytes + 4 + 1
kDataAckBytes == 1 + 1 + kClientIdBytes + 4
kCmdHeaderBytes == 1 + 1 + kClientIdBytes + 1 + 4
kCmdIdentifyBytes == kCmdHeaderBytes + 2
kCmdSyncClockBytes == kCmdHeaderBytes + 8

(* pack_data: the encoded length, or 0 when the buffer is too small. *)
pack_data(out_len, sample_count) ==
    LET payload_len == sample_count * 6
        need == kDataHeaderBytes + payload_len
    IN  IF out_len < need THEN 0 ELSE need

(* parse_data_ack: success flag; the out-parameter is d.last_seq_received. *)
parse_data_ack(d, expected_client_id) ==
    /\ d.len >= kDataAckBytes
    /\ d.msg_type = kMsgDataAck
    /\ d.proto_version = kProtoVersion
    /\ d.client_id = expected_client_id

(* The SyncClock trailer of parse_cmd: server_time_us (u64) follows the    *)
(* command header.                                                         *)
parse_cmd_sync_clock(d) == d.len >= kCmdSyncClockBytes

(* Faulty variant of parse_cmd: the embedded client_id is not compared. *)
parse_cmd_AnyClient(d, expected_client_id) ==
    /\ d.len >= kCmdHeaderBytes
    /\ d.msg_type = kMsgCmd
    /\ d.proto_version = kProtoVersion
    /\ d.cmd_id = kCmdIdentify => d.len >= kCmdHeaderBytes + 2
    /\ d.cmd_id = kCmdSyncClock => parse_cmd_sync_clock(d)

(* parse_cmd: success flag; the out-parameters are d.cmd_id, d.cmd_seq,    *)
(* d.identify_ms and d.server_time_us.  An unknown cmd_id parses.          *)
parse_cmd(d, expected_client_id) ==
    /\ d.len >= kCmdHeaderBytes
    /\ d.msg_type = kMsgCmd
    /\ d.proto_version = kProtoVersion
    /\ d.client_id = expected_client_id
    /\ d.cmd_id = kCmdIdentify => d.len >= kCmdHeaderBytes + 2
    /\ d.cmd_id = kCmdSyncClock => parse_cmd_sync_clock(d)

(* pack_ack: the encoded length, or 0 when the buffer is too small. *)
pack_ack(out_len) == IF out_len < kAckBytes THEN 0 ELSE kAckBytes

(***************************************************************************)
(* The wire codec byte by byte.  A buffer is a sequence of bytes           *)
(* (0 .. 255); data[o + 1] is the byte at offset o.  A uint16_t is a       *)
(* number, a uint32_t the pair <<hi, lo>> of its 16-bit halves, a          *)
(* uint64_t the tuple <<l3, l2, l1, l0>> of its 16-bit quarters, most      *)
(* significant first, an int16_t a number in -2^15 .. 2^15 - 1.  A pack    *)
(* function yields the bytes it wrote; what it returns is their number,    *)
(* 0 (and nothing written) when the buffer is too small.                   *)
(***************************************************************************)
Byte == 256

(* Faulty variant of write_u16_le: most significant byte first. *)
write_u16_le_Swapped(v) == <<(v \div Byte) % Byte, v % Byte>>

write_u16_le(v) == <<v % Byte, (v \div Byte) % Byte>>

write_u32_le(v) == write_u16_le(v[2]) \o write_u16_le(v[1])

write_u64_le(v) ==
    write_u16_le(v[4]) \o write_u16_le(v[3]) \o write_u16_le(v[2])
        \o write_u16_le(v[1])

read_u16_le(data, o) == data[o + 1] + Byte * data[o + 2]

read_u32_le(data, o) == <<read_u16_le(data, o + 2), read_u16_le(data, o)>>

read_u64_le(data, o) ==
    <<read_u16_le(data, o + 6), read_u16_le(data, o + 4),
      read_u16_le(data, o + 2), read_u16_le(data, o)>>

(* memcpy of int16_t values on the little-endian target. *)
RECURSIVE copy_i16(_)
copy_i16(xyz) ==
    IF xyz = <<>>
    THEN <<>>
    ELSE write_u16_le(Head(xyz) % Half) \o copy_i16(Tail(xyz))

(* strnlen(str, n) of a string given as its bytes before the NUL. *)
strnlen(str, n) == IF Len(str) < n THEN Len(str) ELSE n

(* Faulty variant of pack_hello_bytes: the buffer check leaves out the     *)
(* firmware string.                                                        *)
pack_hello_bytes_ShortNeed(out_len, client_id, control_port, sample_rate_hz, frame_samples, name, firmware_version, queue_overflow_drops) ==
    LET name_len == strnlen(name, 32)
        fw_len == strnlen(firmware_version, 32)
        need == kHelloFixedBytes + name_len
    IN  IF out_len < need
        THEN <<>>
        ELSE <<kMsgHello, kProtoVersion>> \o client_id
                 \o write_u16_le(control_port) \o write_u16_le(sample_rate_hz)
                 \o write_u16_le(frame_samples)
                 \o <<name_len>> \o SubSeq(name, 1, name_len)
                 \o <<fw_len>> \o SubSeq(firmware_version, 1, fw_len)
                 \o write_u32_le(queue_overflow_drops)

(* pack_hello.  The firmware's nine-parameter pack_hello is declared in    *)
(* vibesensor_proto.h; the body at hand is the one without frame_samples,  *)
(* which is placed after sample_rate_hz as the layout of the protocol      *)
(* says.                                                                   *)
pack_hello_bytes(out_len, client_id, control_port, sample_rate_hz, frame_samples, name, firmware_version, queue_overflow_drops) ==
    LET name_len == strnlen(name, 32)
        fw_len == strnlen(firmware_version, 32)
        need == kHelloFixedBytes + name_len + fw_len
    IN  IF out_len < need
        THEN <<>>
        ELSE <<kMsgHello, kProtoVersion>> \o client_id
                 \o write_u16_le(control_port) \o write_u16_le(sample_rate_hz)
                 \o write_u16_le(frame_samples)
                 \o <<name_len>> \o SubSeq(name, 1, name_len)
                 \o <<fw_len>> \o SubSeq(firmware_version, 1, fw_len)
                 \o write_u32_le(queue_overflow_drops)

(* pack_data with the bytes it writes; xyz_interleaved holds at least      *)
(* 3 * sample_count values.                                                *)
pack_data_bytes(out_len, client_id, seq, t0_us, xyz_interleaved, sample_count) ==
    LET payload_len == sample_count * 6
        need == kDataHeaderBytes + payload_len
    IN  IF out_len < need
        THEN <<>>
        ELSE <<kMsgData, kProtoVersion>> \o client_id
                 \o write_u32_le(seq) \o write_u64_le(t0_us)
                 \o write_u16_le(sample_count)
                 \o copy_i16(SubSeq(xyz_interleaved, 1, 3 * sample_count))

(* pack_ack with the bytes it writes. *)
pack_ack_bytes(out_len, client_id, cmd_seq, status) ==
    LET need == kAckBytes
    IN  IF out_len < need
        THEN <<>>
        ELSE <<kMsgAck, kProtoVersion>> \o client_id
                 \o write_u32_le(cmd_seq) \o <<status>>

(* pack_data_ack (declared in vibesensor_proto.h). *)
pack_data_ack_bytes(out_len, client_id, last_seq_received) ==
    LET need == kDataAckBytes
    IN  IF out_len < need
        THEN <<>>
        ELSE <<kMsgDataAck, kProtoVersion>> \o client_id
                 \o write_u32_le(last_seq_received)

(* The SyncClock trailer of parse_cmd on the bytes: server_time_us (u64)   *)
(* follows the command header.                                             *)
parse_cmd_sync_clock_bytes(data) ==
    IF Len(data) < kCmdSyncClockBytes
    THEN [ok |-> FALSE, server_time_us |-> <<0, 0, 0, 0>>]
    ELSE [ok |-> TRUE, server_time_us |-> read_u64_le(data, kCmdHeaderBytes)]

(* Faulty variant of parse_cmd: proto_version is not compared. *)
parse_cmd_bytes_AnyVersion(data, expected_client_id) ==
    LET base == kCmdHeaderBytes
        none == [ok |-> FALSE, cmd_id |-> 0, cmd_seq |-> <<0, 0>>,
                 identify_ms |-> 0, server_time_us |-> <<0, 0, 0, 0>>]
    IN  IF Len(data) < base
        THEN none
        ELSE IF data[1] # kMsgCmd
        THEN none
        ELSE IF SubSeq(data, 3, 8) # expected_client_id
        THEN none
        ELSE LET got == [none EXCEPT !.cmd_id = data[9],
                                     !.cmd_seq = read_u32_le(data, 9)]
             IN  IF got.cmd_id = kCmdIdentify
                 THEN IF Len(data) < base + 2
                      THEN got
                      ELSE [got EXCEPT !.ok = TRUE,
                                       !.identify_ms = read_u16_le(data, base)]
                 ELSE IF got.cmd_id = kCmdSyncClock
                 THEN LET t == parse_cmd_sync_clock_bytes(data)
                      IN  [got EXCEPT !.ok = t.ok,
                                      !.server_time_us = t.server_time_us]
                 ELSE [got EXCEPT !.ok = TRUE]

(* parse_cmd on the bytes; the caller's out-parameters start at 0. *)
parse_cmd_bytes(data, expected_client_id) ==
    LET base == kCmdHeaderBytes
        none == [ok |-> FALSE, cmd_id |-> 0, cmd_seq |-> <<0, 0>>,
                 identify_ms |-> 0, server_time_us |-> <<0, 0, 0, 0>>]
    IN  IF Len(data) < base
        THEN none
        ELSE IF data[1] # kMsgCmd \/ data[2] # kProtoVersion
        THEN none
        ELSE IF SubSeq(data, 3, 8) # expected_client_id
        THEN none
        ELSE LET got == [none EXCEPT !.cmd_id = data[9],
                                     !.cmd_seq = read_u32_le(data, 9)]
             IN  IF got.cmd_id = kCmdIdentify
                 THEN IF Len(data) < base + 2
                      THEN got
                      ELSE [got EXCEPT !.ok = TRUE,
                                       !.identify_ms = read_u16_le(data, base)]
                 ELSE IF got.cmd_id = kCmdSyncClock
                 THEN LET t == parse_cmd_sync_clock_bytes(data)
                      IN  [got EXCEPT !.ok = t.ok,
                                      !.server_time_us = t.server_time_us]
                 ELSE [got EXCEPT !.ok = TRUE]

(* The collector's side of the codec, by the layout of the protocol: the   *)
(* encoder of Cmd and the decoders of Data, Ack and DataAck.               *)
pack_cmd_bytes(client_id, cmd_id, cmd_seq, identify_ms, server_time_us) ==
    <<kMsgCmd, kProtoVersion>> \o client_id \o <<cmd_id>>
        \o write_u32_le(cmd_seq)
        \o (IF cmd_id = kCmdIdentify THEN write_u16_le(identify_ms)
            ELSE IF cmd_id = kCmdSyncClock THEN write_u64_le(server_time_us)
            ELSE <<>>)

read_i16_le(data, o) ==
    LET u == read_u16_le(data, o)
    IN  IF u >= Half \div 2 THEN u - Half ELSE u

parse_data(data) ==
    LET sample_count == read_u16_le(data, 20)
    IN  [msg_type |-> data[1],
         proto_version |-> data[2],
         client_id |-> SubSeq(data, 3, 8),
         seq |-> read_u32_le(data, 8),
         t0_us |-> read_u64_le(data, 12),
         sample_count |-> sample_count,
         xyz |-> [i \in 1 .. 3 * sample_count |->
                     read_i16_le(data, kDataHeaderBytes + 2 * (i - 1))]]

parse_ack(data) ==
    [msg_type |-> data[1],
     proto_version |-> data[2],
     client_id |-> SubSeq(data, 3, 8),
     cmd_seq |-> read_u32_le(data, 8),
     status |-> data[13]]

(* parse_data_ack on the bytes. *)
parse_data_ack_bytes(data, expected_client_id) ==
    IF /\ Len(data) >= kDataAckBytes
       /\ data[1] = kMsgDataAck
       /\ data[2] = kProtoVersion
       /\ SubSeq(data, 3, 8) = expected_client_id
    THEN [ok |-> TRUE, last_seq_received |-> read_u32_le(data, 8)]
    ELSE [ok |-> FALSE, last_seq_received |-> <<0, 0>>]

(***************************************************************************)
(* State.  The g_* variables are the globals of main.cpp.                  *)
(***************************************************************************)
VARIABLES
    now_ms,                  \* millis()
    wifi_connected,          \* WiFi.status() == WL_CONNECTED
    g_queue_capacity,
    g_queue,                 \* the ring's slots, 0 .. g_queue_capacity - 1
    g_q_head,                \* next write slot
    g_q_tail,                \* oldest queued frame
    g_q_size,
    g_build_count,           \* samples in the in-progress buffer
    g_next_seq,
    g_queue_overflow_drops,
    g_tx_pack_failures,
    g_data_ack_parse_errors,
    now_us,                  \* esp_timer_get_time()
    g_build_t0_us,           \* due time of the first sample of the buffer
    g_build_xyz,             \* the samples of the in-progress buffer
    g_next_sample_due_us,
    g_sampling_missed_samples,
    g_clock_offset_us,
    g_blink_until_ms,
    g_led_next_update_ms,
    g_identify_leds_active,
    g_control_parse_errors,
    g_last_hello_ms,
    now_base,                \* millis() is now_base + now_ms, modulo 2^32
    g_wifi_retry_failures,
    g_wifi_next_retry_ms,
    g_wifi_reconnect_attempts,
    link_hist,               \* history of the link outage in progress
    g_sensor_ok,
    g_sensor_batch_count,
    g_sensor_batch_index,
    g_sensor_consecutive_errors,
    g_last_sensor_reinit_ms,
    g_sensor_reinit_attempts,
    g_sensor_reinit_success,
    g_sensor_read_errors,
    \* History.  No service reads it; frames_built only bounds the run.
    frames_built,            \* completed frames since boot
    removed,                 \* sequence numbers of frames removed from the queue
    last_data,               \* the last Data datagram sent, <<>> before the first
    wire_out,                \* the Data datagrams sent by the latest step
    last_op,                 \* the latest step and what it did
    \* The network and the collector (used by the delivery specification):
    net_data,                \* sequence numbers of the Data datagrams in flight
    net_ack,                 \* last_seq_received of the DataAck datagrams in flight
    \* The sockets (used by the inbound and the loop specifications):
    data_pending,            \* datagrams waiting on the data socket, oldest first
    control_pending          \* datagrams waiting on the control socket, oldest first

queue_vars == <<g_queue_capacity, g_queue, g_q_head, g_q_tail, g_q_size>>
build_vars == <<g_build_t0_us, g_build_xyz>>
sched_vars == <<g_next_sample_due_us, g_sampling_missed_samples>>
ctl_vars == <<g_clock_offset_us, g_blink_until_ms, g_led_next_update_ms,
              g_identify_leds_active, g_control_parse_errors>>
link_vars == <<now_base, g_wifi_retry_failures, g_wifi_next_retry_ms,
               g_wifi_reconnect_attempts, link_hist>>
svc_vars == <<g_last_hello_ms, link_vars>>
sensor_vars == <<g_sensor_ok, g_sensor_batch_count, g_sensor_batch_index,
                 g_sensor_consecutive_errors, g_last_sensor_reinit_ms,
                 g_sensor_reinit_attempts, g_sensor_reinit_success,
                 g_sensor_read_errors>>
node_vars == <<queue_vars, g_build_count, g_next_seq, g_queue_overflow_drops,
               g_tx_pack_failures, g_data_ack_parse_errors, build_vars,
               sched_vars, ctl_vars, svc_vars, sensor_vars>>
hist_vars == <<frames_built, removed, last_data, wire_out, last_op>>
pend_vars == <<data_pending, control_pending>>
net_vars == <<net_data, net_ack, pend_vars>>
vars == <<now_ms, now_us, wifi_connected, node_vars, hist_vars, net_vars>>

g_client_id == "node"

(* No link outage is being observed. *)
NoOutage == [down |-> FALSE, since |-> 0, attempts |-> 0, sched |-> 0]

(* A slot of the heap block that no frame was written to yet.  The code    *)
(* never reads such a slot: every read is guarded by g_q_size.             *)
NoFrame == [seq |-> <<0, 0>>, t0_us |-> 0, sample_count |-> 0, xyz |-> <<>>,
            transmitted |-> FALSE, last_tx_ms |-> 0]

(* The ring as the code sees it. *)
CurQ == [queue |-> g_queue, tail |-> g_q_tail, size |-> g_q_size]

(* The globals that sampling reads and writes; ok is the value returned by *)
(* the latest sample_once().                                               *)
CurS == [queue |-> g_queue, head |-> g_q_head, tail |-> g_q_tail,
         size |-> g_q_size, drops |-> g_queue_overflow_drops,
         next_seq |-> g_next_seq, build_count |-> g_build_count,
         build_t0 |-> g_build_t0_us, build_xyz |-> g_build_xyz,
         due |-> g_next_sample_due_us, missed |-> g_sampling_missed_samples,
         clock_offset |-> g_clock_offset_us, ok |-> TRUE]

(* The queued frames, oldest first. *)
FramesOf(q) ==
    [i \in 1 .. q.size |-> q.queue[(q.tail + i - 1) % g_queue_capacity]]
QueueSeq == FramesOf(CurQ)
SeqsOf(frames) == {frames[i].seq : i \in 1 .. Len(frames)}

(***************************************************************************)
(* setup(): the queue allocation loop.  heap_frames is the largest number  *)
(* of DataFrame the heap can hold: heap_caps_malloc(cap * sizeof) succeeds *)
(* exactly when cap <= heap_frames.                                        *)
(***************************************************************************)
(* Faulty variant of setup_queue_capacity: only the target is tried. *)
setup_queue_capacity_TargetOnly(cap, heap_frames) ==
    IF cap <= heap_frames THEN cap ELSE 0

RECURSIVE setup_queue_capacity(_, _)
setup_queue_capacity(cap, heap_frames) ==
    IF cap <= heap_frames
    THEN cap
    ELSE IF cap = kFrameQueueLenMin
         THEN 0
         ELSE setup_queue_capacity(cap - 1, heap_frames)

(***************************************************************************)
(* Frame queue.                                                            *)
(***************************************************************************)
(* Faulty variant of RingNext: the index is not wrapped. *)
RingNext_NoWrap(i) == i + 1

(* (index + 1) % g_queue_capacity *)
RingNext(i) == (i + 1) % g_queue_capacity

(* Faulty variant of NewFrame: the clock offset is not applied. *)
NewFrame_NoOffset(st) ==
    [seq |-> st.next_seq,
     t0_us |-> st.build_t0,
     sample_count |-> st.build_count,
     xyz |-> [i \in 0 .. st.build_count - 1 |-> st.build_xyz[i]],
     transmitted |-> FALSE,
     last_tx_ms |-> 0]

(* The frame that enqueue_frame writes into the slot at the head.  t0_us   *)
(* is uint64_t(int64_t(g_build_t0_us) + g_clock_offset_us), kept here as   *)
(* the integer whose 64-bit two's-complement pattern the field holds.      *)
(* memcpy copies the first g_build_count samples of the build buffer.      *)
NewFrame(st) ==
    [seq |-> st.next_seq,
     t0_us |-> st.build_t0 + st.clock_offset,
     sample_count |-> st.build_count,
     xyz |-> [i \in 0 .. st.build_count - 1 |-> st.build_xyz[i]],
     transmitted |-> FALSE,
     last_tx_ms |-> 0]

(* Faulty variant of enqueue_frame: a full queue keeps its oldest frame    *)
(* and the new frame replaces the newest.                                  *)
enqueue_frame_OverwriteNewest(st) ==
    IF st.build_count = 0
    THEN st
    ELSE IF g_queue_capacity = 0
    THEN [st EXCEPT !.drops = @ + 1, !.build_count = 0]
    ELSE IF st.size = g_queue_capacity
    THEN [st EXCEPT !.queue[(st.head + g_queue_capacity - 1) % g_queue_capacity] = NewFrame(st),
                    !.drops = @ + 1,
                    !.next_seq = U32Add(st.next_seq, U32(1)),
                    !.build_count = 0]
    ELSE [st EXCEPT !.queue[st.head] = NewFrame(st),
                    !.head = (st.head + 1) % g_queue_capacity,
                    !.size = st.size + 1,
                    !.next_seq = U32Add(st.next_seq, U32(1)),
                    !.build_count = 0]

(* Faulty variant of enqueue_frame: an eviction is not counted. *)
enqueue_frame_NoCount(st) ==
    IF st.build_count = 0
    THEN st
    ELSE IF g_queue_capacity = 0
    THEN [st EXCEPT !.drops = @ + 1, !.build_count = 0]
    ELSE LET full == st.size = g_queue_capacity
             tail1 == IF full THEN (st.tail + 1) % g_queue_capacity ELSE st.tail
             size1 == IF full THEN st.size - 1 ELSE st.size
         IN  [st EXCEPT !.queue[st.head] = NewFrame(st),
                        !.head = (st.head + 1) % g_queue_capacity,
                        !.tail = tail1,
                        !.size = size1 + 1,
                        !.next_seq = U32Add(st.next_seq, U32(1)),
                        !.build_count = 0]

(* Faulty variant of enqueue_frame: the frame that replaces an evicted one  *)
(* does not advance g_next_seq.                                            *)
enqueue_frame_ReuseSeq(st) ==
    IF st.build_count = 0
    THEN st
    ELSE IF g_queue_capacity = 0
    THEN [st EXCEPT !.drops = @ + 1, !.build_count = 0]
    ELSE LET full == st.size = g_queue_capacity
             tail1 == IF full THEN (st.tail + 1) % g_queue_capacity ELSE st.tail
             size1 == IF full THEN st.size - 1 ELSE st.size
             drops1 == IF full THEN st.drops + 1 ELSE st.drops
         IN  [st EXCEPT !.queue[st.head] = NewFrame(st),
                        !.head = (st.head + 1) % g_queue_capacity,
                        !.tail = tail1,
                        !.size = size1 + 1,
                        !.drops = drops1,
                        !.next_seq = IF full THEN @ ELSE U32Add(@, U32(1)),
                        !.build_count = 0]

(* enqueue_frame() on the globals st; the result holds their new values. *)
enqueue_frame(st) ==
    IF st.build_count = 0
    THEN st
    ELSE IF g_queue_capacity = 0
    THEN [st EXCEPT !.drops = @ + 1, !.build_count = 0]
    ELSE LET full == st.size = g_queue_capacity
             tail1 == IF full THEN RingNext(st.tail) ELSE st.tail
             size1 == IF full THEN st.size - 1 ELSE st.size
             drops1 == IF full THEN st.drops + 1 ELSE st.drops
         IN  [st EXCEPT !.queue[st.head] = NewFrame(st),
                        !.head = RingNext(st.head),
                        !.tail = tail1,
                        !.size = size1 + 1,
                        !.drops = drops1,
                        !.next_seq = U32Add(st.next_seq, U32(1)),
                        !.build_count = 0]

(* Faulty variant of peek_frame: the newest frame instead of the oldest. *)
peek_frame_Newest(q) == q.queue[(q.tail + q.size - 1) % g_queue_capacity]

(* peek_frame(): the front frame; the caller checks q.size first. *)
peek_frame(q) == q.queue[q.tail]

(* Faulty variant of drop_front_frame: the frame is only uncounted, the   *)
(* tail stays on it.                                                       *)
drop_front_frame_KeepTail(q) ==
    IF q.size = 0
    THEN q
    ELSE [q EXCEPT !.size = q.size - 1]

drop_front_frame(q) ==
    IF q.size = 0
    THEN q
    ELSE [q EXCEPT !.tail = RingNext(q.tail), !.size = q.size - 1]

(* Faulty variant of ack_data_frames: an acknowledgment that covers the    *)
(* front frame empties the queue.                                          *)
ack_data_frames_Flush(q, last_seq_received) ==
    IF q.size > 0 /\ seq_less_or_equal(peek_frame(q).seq, last_seq_received)
    THEN [q EXCEPT !.tail = (q.tail + q.size) % g_queue_capacity, !.size = 0]
    ELSE q

(* Faulty variant of ack_data_frames: the front frame is dropped before    *)
(* the first comparison.                                                   *)
RECURSIVE ack_data_frames_DropFirst(_, _)
ack_data_frames_DropFirst(q, last_seq_received) ==
    LET q1 == drop_front_frame(q)
    IN  IF q1.size > 0 /\ seq_less_or_equal(peek_frame(q1).seq, last_seq_received)
        THEN ack_data_frames_DropFirst(q1, last_seq_received)
        ELSE q1

RECURSIVE ack_data_frames(_, _)
ack_data_frames(q, last_seq_received) ==
    IF q.size > 0
    THEN IF ~seq_less_or_equal(peek_frame(q).seq, last_seq_received)
         THEN q
         ELSE ack_data_frames(drop_front_frame(q), last_seq_received)
    ELSE q

(***************************************************************************)
(* Sampling: sample_once().  got_sample is what next_sensor_sample()       *)
(* returned.  A sample (x, y, z) is kept by where it came from and when    *)
(* it was taken: src is SensorSample for a value read from the             *)
(* accelerometer, SynthSample for the output of synth_sample(), ZeroSample *)
(* for the zero the build buffer is initialised to; due is the value of    *)
(* g_next_sample_due_us at the call of sample_once() that stored it.       *)
(***************************************************************************)
SensorSample == "adxl"
SynthSample == "synth"
ZeroSample == "zero"
Sample(src, due) == [src |-> src, due |-> due]

(* Faulty variant of sample_once: built with the synthetic fallback. *)
sample_once_SynthFallback(st, got_sample) ==
    LET x == Sample(IF got_sample THEN SensorSample ELSE SynthSample, st.due)
        st1 == [st EXCEPT !.build_t0 = IF st.build_count = 0 THEN st.due ELSE @,
                          !.build_xyz[st.build_count] = x,
                          !.build_count = @ + 1,
                          !.ok = TRUE]
    IN  IF st1.build_count >= kFrameSamples
        THEN enqueue_frame(st1)
        ELSE st1

sample_once(st, got_sample) ==
    LET x == Sample(IF got_sample THEN SensorSample ELSE SynthSample, st.due)
        st1 == [st EXCEPT !.build_t0 = IF st.build_count = 0 THEN st.due ELSE @,
                          !.build_xyz[st.build_count] = x,
                          !.build_count = @ + 1,
                          !.ok = TRUE]
    IN  IF ~got_sample /\ VIBESENSOR_ENABLE_SYNTH_FALLBACK = 0
        THEN [st EXCEPT !.ok = FALSE]
        ELSE IF st1.build_count >= kFrameSamples
             THEN enqueue_frame(st1)
             ELSE st1

(***************************************************************************)
(* Sampling scheduler: service_sampling().  esp_timer_get_time() is read   *)
(* at entry and again after every sample taken: got[i] is what             *)
(* next_sensor_sample() returns in iteration i and cost[i] the time that   *)
(* has passed when the clock is read at the end of iteration i.  The       *)
(* uint64_t times of the model stay far below 2^63, so                     *)
(* static_cast<int64_t>(now - due) >= 0 is now >= due.  The result holds   *)
(* the globals, the last time read (now), the number of samples taken and  *)
(* the number of steps skipped.                                            *)
(***************************************************************************)
step_us == 1000000 \div kSampleRateHz

RECURSIVE sampling_loop(_, _, _, _, _)
sampling_loop(st, now, catch_up_count, got, cost) ==
    IF now - st.due >= 0 /\ catch_up_count < kMaxCatchUpSamplesPerLoop
    THEN LET r == sample_once(st, got[catch_up_count])
         IN  IF ~r.ok
             THEN [st |-> [r EXCEPT !.missed = @ + 1], now |-> now,
                   taken |-> catch_up_count]
             ELSE sampling_loop([r EXCEPT !.due = @ + step_us],
                                now + cost[catch_up_count],
                                catch_up_count + 1, got, cost)
    ELSE [st |-> st, now |-> now, taken |-> catch_up_count]

(* Faulty variant of service_sampling: the backlog is not skipped. *)
service_sampling_NoSkip(st, now, got, cost) ==
    LET l == sampling_loop(st, now, 0, got, cost)
    IN  [st |-> l.st, now |-> l.now, taken |-> l.taken, skipped |-> 0]

service_sampling(st, now, got, cost) ==
    LET l == sampling_loop(st, now, 0, got, cost)
    IN  IF l.now - l.st.due >= 0
        THEN LET lag_us == l.now - l.st.due
                 skipped == (lag_us \div step_us) + 1
             IN  [st |-> [l.st EXCEPT !.missed = @ + skipped,
                                      !.due = @ + skipped * step_us],
                  now |-> l.now, taken |-> l.taken, skipped |-> skipped]
        ELSE [st |-> l.st, now |-> l.now, taken |-> l.taken, skipped |-> 0]

(***************************************************************************)
(* Transport: service_tx().  outcome[sent] is what the datagram transport  *)
(* answers to the send of loop iteration `sent`: "ok", "begin_fail"        *)
(* (beginPacket != 1) or "end_fail" (endPacket != 1).  st.out collects the *)
(* Data datagrams that left the node, each with the time it left at, and   *)
(* st.ev what each iteration did; a send of a frame whose transmitted flag *)
(* was already set is "resent".                                            *)
(***************************************************************************)
SendOutcomes == {"ok", "begin_fail", "end_fail"}

(* now_ms - frame->last_tx_ms.  The clock of the model stays far below     *)
(* 2^32 and never runs backwards, so the uint32_t difference never wraps.  *)
ElapsedMs(now, then) == now - then

(* Faulty variant of RetransmitNotDue: due one millisecond early. *)
RetransmitNotDue_Early(frame, now) ==
    frame.transmitted /\ ElapsedMs(now, frame.last_tx_ms) < kDataRetransmitIntervalMs - 1

(* Faulty variant of RetransmitNotDue: a transmitted frame is never due. *)
RetransmitNotDue_Never(frame, now) == frame.transmitted

(* frame->transmitted && (now_ms - frame->last_tx_ms) < kDataRetransmitIntervalMs *)
RetransmitNotDue(frame, now) ==
    frame.transmitted /\ ElapsedMs(now, frame.last_tx_ms) < kDataRetransmitIntervalMs

(* Faulty variant of the loop of service_tx: a frame is removed as soon as  *)
(* it has been sent.                                                       *)
RECURSIVE tx_loop_DropSent(_, _, _, _)
tx_loop_DropSent(sent, st, now, outcome) ==
    IF sent >= kMaxTxFramesPerLoop
    THEN st
    ELSE IF st.size = 0
    THEN [st EXCEPT !.ev = Append(@, "empty")]
    ELSE LET frame == peek_frame(st)
             len == pack_data(kMaxDatagramBytes, frame.sample_count)
         IN  IF RetransmitNotDue(frame, now)
             THEN [st EXCEPT !.ev = Append(@, "wait")]
             ELSE IF len = 0
             THEN LET q == drop_front_frame(st)
                  IN  tx_loop_DropSent(sent + 1,
                              [q EXCEPT !.pack_failures = @ + 1,
                                        !.ev = Append(@, "pack_fail")],
                              now, outcome)
             ELSE IF outcome[sent] = "begin_fail"
             THEN [st EXCEPT !.ev = Append(@, "begin_fail")]
             ELSE IF outcome[sent] = "end_fail"
             THEN [st EXCEPT !.ev = Append(@, "end_fail")]
             ELSE LET q == drop_front_frame(st)
                  IN  tx_loop_DropSent(sent + 1,
                          [q EXCEPT !.out = Append(@, [seq |-> frame.seq,
                                                       sample_count |-> frame.sample_count,
                                                       len |-> len,
                                                       at |-> now]),
                                    !.ev = Append(@, "sent")],
                          now, outcome)

RECURSIVE tx_loop(_, _, _, _)
tx_loop(sent, st, now, outcome) ==
    IF sent >= kMaxTxFramesPerLoop
    THEN st
    ELSE IF st.size = 0
    THEN [st EXCEPT !.ev = Append(@, "empty")]
    ELSE LET frame == peek_frame(st)
             len == pack_data(kMaxDatagramBytes, frame.sample_count)
         IN  IF RetransmitNotDue(frame, now)
             THEN [st EXCEPT !.ev = Append(@, "wait")]
             ELSE IF len = 0
             THEN LET q == drop_front_frame(st)
                  IN  tx_loop(sent + 1,
                              [q EXCEPT !.pack_failures = @ + 1,
                                        !.ev = Append(@, "pack_fail")],
                              now, outcome)
             ELSE IF outcome[sent] = "begin_fail"
             THEN [st EXCEPT !.ev = Append(@, "begin_fail")]
             ELSE IF outcome[sent] = "end_fail"
             THEN [st EXCEPT !.ev = Append(@, "end_fail")]
             ELSE tx_loop(sent + 1,
                          [st EXCEPT !.queue[st.tail].transmitted = TRUE,
                                     !.queue[st.tail].last_tx_ms = now,
                                     !.out = Append(@, [seq |-> frame.seq,
                                                        sample_count |-> frame.sample_count,
                                                        len |-> len,
                                                        at |-> now]),
                                     !.ev = Append(@, IF frame.transmitted
                                                      THEN "resent" ELSE "sent")],
                          now, outcome)

(* Faulty variant of service_tx: the link is not checked. *)
service_tx_IgnoreLink(connected, now, outcome) ==
    tx_loop(0, [queue |-> g_queue, tail |-> g_q_tail, size |-> g_q_size,
                pack_failures |-> g_tx_pack_failures, out |-> <<>>, ev |-> <<>>],
            now, outcome)

service_tx(connected, now, outcome) ==
    LET st0 == [queue |-> g_queue, tail |-> g_q_tail, size |-> g_q_size,
                pack_failures |-> g_tx_pack_failures, out |-> <<>>, ev |-> <<>>]
    IN  IF ~connected
        THEN st0
        ELSE tx_loop(0, st0, now, outcome)

(***************************************************************************)
(* Inbound.  service_data_rx() reads every pending datagram of the data    *)
(* socket; service_control_rx() reads one datagram of the control socket.  *)
(* st.acks collects the last_seq_received of the acknowledgments applied.  *)
(***************************************************************************)
(* One turn of the loop of service_data_rx: the datagram d was read. *)
data_rx_one(st, d) ==
    IF d.len = 0 \/ d.msg_type # kMsgDataAck
    THEN st
    ELSE IF parse_data_ack(d, g_client_id)
    THEN [ack_data_frames(st, d.last_seq_received)
             EXCEPT !.acks = @ \cup {d.last_seq_received}]
    ELSE [st EXCEPT !.parse_errors = @ + 1]

(* Faulty variant of service_data_rx: one datagram is read per call. *)
service_data_rx_One(pkts, st) ==
    IF pkts = <<>>
    THEN st
    ELSE data_rx_one(st, Head(pkts))

RECURSIVE service_data_rx(_, _)
service_data_rx(pkts, st) ==
    IF pkts = <<>>
    THEN st
    ELSE service_data_rx(Tail(pkts), data_rx_one(st, Head(pkts)))

(* send_ack(): outcome is what endPacket() answers, "ok" for 1.  The       *)
(* result of beginPacket() is not looked at.  st.ack_out collects the Ack  *)
(* datagrams that left the node, st.ack_calls counts the calls, st.err     *)
(* collects the codes given to set_last_error().                           *)
(* Faulty variant of send_ack: every Ack reports status ok. *)
send_ack_AlwaysOk(st, cmd_seq, status, outcome) ==
    LET st1 == [st EXCEPT !.ack_calls = @ + 1]
    IN  IF outcome = "ok"
        THEN [st1 EXCEPT !.ack_out = Append(@, [msg_type |-> kMsgAck,
                                                proto_version |-> kProtoVersion,
                                                client_id |-> g_client_id,
                                                cmd_seq |-> cmd_seq,
                                                status |-> 0])]
        ELSE [st1 EXCEPT !.err = Append(@, 8)]

send_ack(st, cmd_seq, status, outcome) ==
    LET len == pack_ack(16)
        st1 == [st EXCEPT !.ack_calls = @ + 1]
    IN  IF len = 0
        THEN st1
        ELSE IF outcome = "ok"
        THEN [st1 EXCEPT !.ack_out = Append(@, [msg_type |-> kMsgAck,
                                                proto_version |-> kProtoVersion,
                                                client_id |-> g_client_id,
                                                cmd_seq |-> cmd_seq,
                                                status |-> status])]
        ELSE [st1 EXCEPT !.err = Append(@, 8)]

(* service_control_rx() with the datagram d pending; now and now_us_ are   *)
(* what millis() and esp_timer_get_time() return.                          *)
service_control_rx(st, d, now, now_us_, outcome) ==
    IF d.len = 0
    THEN st
    ELSE IF d.msg_type = kMsgDataAck
    THEN IF parse_data_ack(d, g_client_id)
         THEN [ack_data_frames(st, d.last_seq_received)
                  EXCEPT !.acks = @ \cup {d.last_seq_received}]
         ELSE st
    ELSE IF ~parse_cmd(d, g_client_id)
    THEN [st EXCEPT !.control_parse_errors = @ + 1, !.err = Append(@, 9)]
    ELSE IF d.cmd_id = kCmdIdentify
    THEN LET identify_ms == IF d.identify_ms > kMaxIdentifyDurationMs
                            THEN kMaxIdentifyDurationMs
                            ELSE d.identify_ms
         IN  send_ack([st EXCEPT !.blink_until = now + identify_ms,
                                 !.led_next = 0],
                      d.cmd_seq, 0, outcome)
    ELSE IF d.cmd_id = kCmdSyncClock
    THEN send_ack([st EXCEPT !.clock_offset = d.server_time_us - now_us_],
                  d.cmd_seq, 0, outcome)
    ELSE send_ack(st, d.cmd_seq, 2, outcome)

(* service_blink(): the identify indicator.  The times of the model stay   *)
(* far below 2^31, so static_cast<int32_t>(until - now) <= 0 is            *)
(* until <= now.                                                           *)
service_blink(st, now) ==
    IF st.blink_until = 0 \/ st.blink_until - now <= 0
    THEN [st EXCEPT !.leds_active = FALSE, !.blink_until = 0]
    ELSE IF now >= st.led_next
         THEN [st EXCEPT !.leds_active = TRUE,
                         !.led_next = now + (kIdentifyBlinkPeriodMs \div 2)]
         ELSE st

(***************************************************************************)
(* reliability.h: the retry policy of the link.  Delays are numbers: with  *)
(* the bases used (below 2^25) base_ms << 6 stays below 2^31, so no        *)
(* uint32_t operation of compute_retry_delay_ms wraps.  random_value is    *)
(* what esp_random() returned.  Times are uint32_t pairs.                  *)
(***************************************************************************)
(* Faulty variant of clamp_frame_samples: the header is not taken off the  *)
(* datagram.                                                               *)
clamp_frame_samples_NoHeader(configured_samples, max_datagram_bytes, data_header_bytes) ==
    LET max_by_datagram == max_datagram_bytes \div 6
        hi == IF max_by_datagram > 65535 THEN 65535 ELSE max_by_datagram
    IN  IF configured_samples = 0
        THEN 1
        ELSE IF configured_samples > hi THEN hi ELSE configured_samples

(* clamp_frame_samples.  The subtraction is in size_t: with a datagram     *)
(* smaller than the header it wraps to a value whose sixth is far above    *)
(* 0xFFFF, so hi is 0xFFFF.                                                *)
clamp_frame_samples(configured_samples, max_datagram_bytes, data_header_bytes) ==
    LET wrapped == max_datagram_bytes < data_header_bytes
        max_by_datagram == (max_datagram_bytes - data_header_bytes) \div 6
        hi == IF wrapped \/ max_by_datagram > 65535 THEN 65535 ELSE max_by_datagram
    IN  IF configured_samples = 0
        THEN 1
        ELSE IF configured_samples > hi THEN hi ELSE configured_samples

(* Faulty variant of saturating_inc_u8: the plain uint8_t increment. *)
saturating_inc_u8_Wrap(value) == (value + 1) % 256

saturating_inc_u8(value) == IF value = 255 THEN value ELSE (value + 1) % 256

(* Faulty variant of compute_retry_delay_ms: the delay does not grow. *)
compute_retry_delay_ms_NoGrowth(base_ms, max_ms, failure_count, random_value) ==
    LET delay_ms == IF base_ms > max_ms THEN max_ms ELSE base_ms
        jitter_span == delay_ms \div 4
        jittered == delay_ms - (jitter_span \div 2) + (random_value % jitter_span)
    IN  IF jitter_span = 0
        THEN delay_ms
        ELSE IF jittered > max_ms THEN max_ms ELSE jittered

(* Faulty variant of compute_retry_delay_ms: the jittered delay is not     *)
(* capped.                                                                 *)
compute_retry_delay_ms_NoCap(base_ms, max_ms, failure_count, random_value) ==
    LET shift == IF failure_count < 6 THEN failure_count ELSE 6
        shifted == base_ms * (2 ^ shift)
        delay_ms == IF shifted > max_ms THEN max_ms ELSE shifted
        jitter_span == delay_ms \div 4
    IN  IF jitter_span = 0
        THEN delay_ms
        ELSE delay_ms - (jitter_span \div 2) + (random_value % jitter_span)

compute_retry_delay_ms(base_ms, max_ms, failure_count, random_value) ==
    LET shift == IF failure_count < 6 THEN failure_count ELSE 6
        shifted == base_ms * (2 ^ shift)
        delay_ms == IF shifted > max_ms THEN max_ms ELSE shifted
        jitter_span == delay_ms \div 4
        jittered == delay_ms - (jitter_span \div 2) + (random_value % jitter_span)
    IN  IF jitter_span = 0
        THEN delay_ms
        ELSE IF jittered > max_ms THEN max_ms ELSE jittered

(* Faulty variant of retry_due: a retry time of 0 is a time like any       *)
(* other.                                                                  *)
retry_due_NoSentinel(now, retry_at) == U32Sub(now, retry_at)[1] < Half \div 2

(* static_cast<int32_t>(now_ms - retry_at_ms) >= 0: the sign bit of the    *)
(* difference is clear.                                                    *)
retry_due(now, retry_at) ==
    retry_at = <<0, 0>> \/ U32Sub(now, retry_at)[1] < Half \div 2

(* service_wifi(); connected is WiFi.status() == WL_CONNECTED, now what    *)
(* millis() returns.  An attempt is the refresh of the target, the         *)
(* disconnect and begin_target_wifi(); st.reconnect_attempts counts them.  *)
service_wifi(st, connected, now, random_value) ==
    IF connected
    THEN [st EXCEPT !.failures = 0, !.next_retry = <<0, 0>>]
    ELSE IF ~retry_due(now, st.next_retry)
    THEN st
    ELSE LET failures == saturating_inc_u8(st.failures)
             delay == compute_retry_delay_ms(kWifiRetryIntervalMs,
                                             kWifiRetryIntervalMaxMs,
                                             failures, random_value)
         IN  [st EXCEPT !.reconnect_attempts = @ + 1,
                        !.err = Append(@, 12),
                        !.failures = failures,
                        !.next_retry = U32Add(now, U32(delay))]

(***************************************************************************)
(* The sensor.  read is what g_adxl.read_samples() answers: the number of  *)
(* samples it stored and its two flags; begin_ok is what g_adxl.begin()    *)
(* would answer.  st.got is the value returned, st.err the codes given to  *)
(* set_last_error().                                                       *)
(***************************************************************************)
(* Faulty variant of next_sensor_sample: the cooldown is not looked at. *)
next_sensor_sample_NoCooldown(st, now, read, begin_ok) ==
    IF ~st.ok
    THEN [st EXCEPT !.got = FALSE]
    ELSE LET st1 == IF st.batch_index < st.batch_count
                    THEN st
                    ELSE LET a == [st EXCEPT !.batch_count = read.count,
                                             !.batch_index = 0,
                                             !.err = IF read.fifo_truncated
                                                     THEN Append(@, 2) ELSE @]
                         IN  IF read.io_error
                             THEN LET b == [a EXCEPT
                                               !.read_errors = @ + 1,
                                               !.consecutive_errors = (@ + 1) % 256,
                                               !.err = Append(@, 1)]
                                  IN  IF b.consecutive_errors >= kSensorReinitErrorThreshold
                                      THEN [b EXCEPT
                                               !.last_reinit = now,
                                               !.reinit_attempts = @ + 1,
                                               !.ok = begin_ok,
                                               !.reinit_success =
                                                   IF begin_ok THEN @ + 1 ELSE @,
                                               !.consecutive_errors =
                                                   IF begin_ok THEN 0 ELSE @]
                                      ELSE b
                             ELSE IF a.batch_count > 0
                             THEN [a EXCEPT !.consecutive_errors = 0]
                             ELSE a
         IN  IF st1.batch_count = 0
             THEN [st1 EXCEPT !.got = FALSE]
             ELSE [st1 EXCEPT !.batch_index = @ + 1, !.got = TRUE]

next_sensor_sample(st, now, read, begin_ok) ==
    IF ~st.ok
    THEN [st EXCEPT !.got = FALSE]
    ELSE LET st1 == IF st.batch_index < st.batch_count
                    THEN st
                    ELSE LET a == [st EXCEPT !.batch_count = read.count,
                                             !.batch_index = 0,
                                             !.err = IF read.fifo_truncated
                                                     THEN Append(@, 2) ELSE @]
                         IN  IF read.io_error
                             THEN LET b == [a EXCEPT
                                               !.read_errors = @ + 1,
                                               !.consecutive_errors = (@ + 1) % 256,
                                               !.err = Append(@, 1)]
                                  IN  IF b.consecutive_errors >= kSensorReinitErrorThreshold
                                         /\ ElapsedMs(now, b.last_reinit) >= kSensorReinitCooldownMs
                                      THEN [b EXCEPT
                                               !.last_reinit = now,
                                               !.reinit_attempts = @ + 1,
                                               !.ok = begin_ok,
                                               !.reinit_success =
                                                   IF begin_ok THEN @ + 1 ELSE @,
                                               !.consecutive_errors =
                                                   IF begin_ok THEN 0 ELSE @]
                                      ELSE b
                             ELSE IF a.batch_count > 0
                             THEN [a EXCEPT !.consecutive_errors = 0]
                             ELSE a
         IN  IF st1.batch_count = 0
             THEN [st1 EXCEPT !.got = FALSE]
             ELSE [st1 EXCEPT !.batch_index = @ + 1, !.got = TRUE]

(***************************************************************************)
(* Hello.  kClientName and kFirmwareVersion are the bytes of "vibe-node"   *)
(* and "esp32-atom-0.1"; the client id is the fallback id of setup(), and  *)
(* g_control_port what setup() derives from it.                            *)
(***************************************************************************)
kClientName == <<118, 105, 98, 101, 45, 110, 111, 100, 101>>
kFirmwareVersion == <<101, 115, 112, 51, 50, 45, 97, 116, 111, 109, 45, 48, 46, 49>>
g_client_id_bytes == <<208, 90, 0, 0, 0, 1>>
g_control_port == kControlPortBase + (g_client_id_bytes[6] % 100)

(* The part of send_hello() after pack_hello: packet is what pack_hello    *)
(* wrote, outcome what endPacket() answers.  st.hello_out collects the     *)
(* Hello datagrams that left the node, st.err the codes given to           *)
(* set_last_error().                                                       *)
send_hello_packet(st, packet, outcome) ==
    IF Len(packet) = 0
    THEN st
    ELSE IF outcome = "ok"
    THEN [st EXCEPT !.hello_out = Append(@, packet)]
    ELSE [st EXCEPT !.err = Append(@, 4)]

send_hello(st, outcome) ==
    send_hello_packet([st EXCEPT !.hello_calls = @ + 1],
                      pack_hello_bytes(128, g_client_id_bytes, g_control_port,
                                       kSampleRateHz, kFrameSamples,
                                       kClientName, kFirmwareVersion,
                                       U32(st.drops)),
                      outcome)

(* Faulty variant of service_hello: the interval must be exceeded. *)
service_hello_Late(st, now, outcome) ==
    IF ElapsedMs(now, st.last_hello) > kHelloIntervalMs
    THEN [send_hello(st, outcome) EXCEPT !.last_hello = now]
    ELSE st

(* service_hello(); now is what millis() returns. *)
service_hello(st, now, outcome) ==
    IF ElapsedMs(now, st.last_hello) >= kHelloIntervalMs
    THEN [send_hello(st, outcome) EXCEPT !.last_hello = now]
    ELSE st

(* A Hello datagram as the collector reads it, by the layout of the        *)
(* protocol.                                                               *)
parse_hello(data) ==
    LET name_len == data[15]
        fw_len == data[16 + name_len]
    IN  [msg_type |-> data[1],
         proto_version |-> data[2],
         client_id |-> SubSeq(data, 3, 8),
         control_port |-> read_u16_le(data, 8),
         sample_rate_hz |-> read_u16_le(data, 10),
         frame_samples |-> read_u16_le(data, 12),
         name |-> SubSeq(data, 16, 15 + name_len),
         firmware_version |-> SubSeq(data, 17 + name_len, 16 + name_len + fw_len),
         queue_overflow_drops |-> read_u32_le(data, 16 + name_len + fw_len)]

(***************************************************************************)
(* What the network can hand to the node.  DataAck datagrams are           *)
(* unauthenticated: last_seq_received may be any 32-bit value.  The values *)
(* tried are the ones around the queue (the frame before the front, every  *)
(* queued frame, the sequence number not assigned yet) and two values half *)
(* the sequence space away from the front (2^31 - 1 and 2^31 + 1 ahead).   *)
(***************************************************************************)
AckFront == IF g_q_size > 0 THEN peek_frame(CurQ).seq ELSE g_next_seq
FarOffsets == {<<Half \div 2 - 1, Half - 1>>, <<Half \div 2, 1>>}
AckValues ==
    {U32Sub(AckFront, U32(1)), g_next_seq}
        \cup SeqsOf(QueueSeq)
        \cup {U32Add(AckFront, x) : x \in FarOffsets}

DataAck(client_id, last_seq) ==
    [len |-> kDataAckBytes, msg_type |-> kMsgDataAck,
     proto_version |-> kProtoVersion, client_id |-> client_id,
     last_seq_received |-> last_seq]

(* A command datagram of `len` bytes. *)
Cmd(len, msg_type, proto_version, client_id, cmd_id, cmd_seq, identify_ms, server_time_us) ==
    [len |-> len, msg_type |-> msg_type, proto_version |-> proto_version,
     client_id |-> client_id, cmd_id |-> cmd_id, cmd_seq |-> cmd_seq,
     identify_ms |-> identify_ms, server_time_us |-> server_time_us]

(* A command with a cmd_id the node does not know. *)
CmdDatagram ==
    Cmd(kCmdHeaderBytes, kMsgCmd, kProtoVersion, g_client_id, 9, 7, 0, 0)

InboundAcks ==
    {DataAck(g_client_id, s) : s \in AckValues}
        \cup {DataAck("other", AckFront)}
InboundData == InboundAcks \cup {CmdDatagram}

(***************************************************************************)
(* Initial state: the end of setup().                                      *)
(***************************************************************************)
(* The state at the end of setup(); adxl_begin is what g_adxl.begin()      *)
(* returned.                                                               *)
Setup(adxl_begin) ==
    /\ now_ms = 0
    /\ wifi_connected \in BOOLEAN
    /\ \E heap_frames \in 0 .. kFrameQueueLenTarget :
          g_queue_capacity = setup_queue_capacity(kFrameQueueLenTarget, heap_frames)
    /\ g_queue = [i \in 0 .. g_queue_capacity - 1 |-> NoFrame]
    /\ g_q_head = 0
    /\ g_q_tail = 0
    /\ g_q_size = 0
    /\ g_build_count = 0
    /\ g_next_seq = <<0, 0>>
    /\ g_queue_overflow_drops = 0
    /\ g_tx_pack_failures = 0
    /\ g_data_ack_parse_errors = 0
    /\ now_us = 0
    /\ g_build_t0_us = 0
    /\ g_build_xyz = [i \in 0 .. kFrameSamples - 1 |-> Sample(ZeroSample, 0)]
    /\ g_next_sample_due_us = now_us
    /\ g_sampling_missed_samples = 0
    /\ g_clock_offset_us = 0
    /\ g_blink_until_ms = 0
    /\ g_led_next_update_ms = 0
    /\ g_identify_leds_active = FALSE
    /\ g_control_parse_errors = 0
    /\ g_last_hello_ms = 0
    /\ now_base = <<0, 0>>
    /\ g_wifi_retry_failures = 0
    /\ g_wifi_next_retry_ms = <<0, 0>>
    /\ g_wifi_reconnect_attempts = 0
    /\ link_hist = NoOutage
    /\ g_sensor_ok = adxl_begin
    /\ g_sensor_batch_count = 0
    /\ g_sensor_batch_index = 0
    /\ g_sensor_consecutive_errors = 0
    /\ g_last_sensor_reinit_ms = 0
    /\ g_sensor_reinit_attempts = 0
    /\ g_sensor_reinit_success = 0
    /\ g_sensor_read_errors = 0
    /\ frames_built = 0
    /\ removed = {}
    /\ last_data = <<>>
    /\ wire_out = <<>>
    /\ last_op = [op |-> "boot"]
    /\ net_data = {}
    /\ net_ack = {}
    /\ data_pending = <<>>
    /\ control_pending = <<>>

(* The sensor was found at boot.  A sensor that was not found is never     *)
(* looked for again (next_sensor_sample returns at once); the sensor       *)
(* specification starts from both.                                         *)
Init == Setup(TRUE)

(***************************************************************************)
(* Actions: the services of loop(), one atomic step each, in any order.    *)
(***************************************************************************)
(* The frames of the current queue that are no longer in q. *)
RemovedBy(q) == SeqsOf(QueueSeq) \ SeqsOf(FramesOf(q))

(* Time passes (delay(1), and whatever the services took). *)
TickBy(dt) ==
    /\ now_ms + dt <= MaxNowMs
    /\ now_ms' = now_ms + dt
    /\ now_us' = now_us + dt * 1000
    /\ wire_out' = <<>>
    /\ last_op' = [op |-> "tick"]
    /\ UNCHANGED <<wifi_connected, node_vars, frames_built, removed,
                   last_data, net_vars>>

Tick == \E dt \in TickMs : TickBy(dt)

(* The link goes down or comes back. *)
WifiChange ==
    /\ wifi_connected' = ~wifi_connected
    /\ wire_out' = <<>>
    /\ last_op' = [op |-> "wifi"]
    /\ UNCHANGED <<now_ms, now_us, node_vars, frames_built, removed, last_data,
                   net_vars>>

(* One call of sample_once(), in a run of at most max_frames frames.       *)
(* last_op.enq tells what enqueue_frame did.                               *)
SampleStepUpTo(got_sample, max_frames) ==
    LET completes == got_sample /\ g_build_count + 1 >= kFrameSamples
        enq == IF ~completes THEN "none"
               ELSE IF g_queue_capacity = 0 THEN "nocap"
               ELSE IF g_q_size = g_queue_capacity THEN "evict"
               ELSE "append"
    IN  \E r \in {sample_once(CurS, got_sample)} :
        /\ completes => frames_built < max_frames
        /\ g_queue' = r.queue
        /\ g_q_head' = r.head
        /\ g_q_tail' = r.tail
        /\ g_q_size' = r.size
        /\ g_queue_overflow_drops' = r.drops
        /\ g_next_seq' = r.next_seq
        /\ g_build_count' = r.build_count
        /\ g_build_t0_us' = r.build_t0
        /\ g_build_xyz' = r.build_xyz
        /\ frames_built' = IF completes THEN frames_built + 1 ELSE frames_built
        /\ removed' = removed \cup RemovedBy(r)
        /\ wire_out' = <<>>
        /\ last_op' = [op |-> "sample", enq |-> enq]
        /\ UNCHANGED <<svc_vars, now_ms, now_us, wifi_connected, g_queue_capacity,
                       g_tx_pack_failures, g_data_ack_parse_errors,
                       sched_vars, ctl_vars, last_data>>

SampleStep(got_sample) == SampleStepUpTo(got_sample, MaxFrames)

SampleOnce ==
    \E got_sample \in BOOLEAN :
        SampleStep(got_sample) /\ UNCHANGED <<sensor_vars, net_vars>>

(* One call of service_tx(). *)
TxStep(outcome) ==
    \E r \in {service_tx(wifi_connected, now_ms, outcome)} :
        /\ g_queue' = r.queue
        /\ g_q_tail' = r.tail
        /\ g_q_size' = r.size
        /\ g_tx_pack_failures' = r.pack_failures
        /\ wire_out' = r.out
        /\ last_data' = IF r.out = <<>> THEN last_data ELSE r.out[Len(r.out)]
        /\ removed' = removed \cup RemovedBy(r)
        /\ last_op' = [op |-> "tx", ev |-> r.ev]
        /\ UNCHANGED <<svc_vars, sensor_vars, now_ms, now_us, wifi_connected, g_queue_capacity, g_q_head,
                       g_build_count, g_next_seq, g_queue_overflow_drops,
                       g_data_ack_parse_errors, build_vars, sched_vars,
                       ctl_vars, frames_built>>

ServiceTx ==
    \E outcome \in [0 .. kMaxTxFramesPerLoop - 1 -> SendOutcomes] :
        TxStep(outcome) /\ UNCHANGED net_vars

(* The state an inbound service starts from. *)
RxStart ==
    [queue |-> g_queue, tail |-> g_q_tail, size |-> g_q_size,
     parse_errors |-> g_data_ack_parse_errors, acks |-> {}]

(* The results of service_data_rx over the batches of at most n pending    *)
(* datagrams that continue the batches leading to the states of S.         *)
RECURSIVE RxResults(_, _)
RxResults(n, S) ==
    IF n = 0
    THEN S
    ELSE RxResults(n - 1, S \cup {service_data_rx(<<d>>, st) : st \in S, d \in InboundData})

(* The inbound service named op ended in r. *)
RxStep(op, r) ==
    /\ g_q_tail' = r.tail
    /\ g_q_size' = r.size
    /\ g_data_ack_parse_errors' = r.parse_errors
    /\ removed' = removed \cup RemovedBy(r)
    /\ wire_out' = <<>>
    /\ last_op' = [op |-> op, acks |-> r.acks, trimmed |-> RemovedBy(r)]
    /\ UNCHANGED <<svc_vars, sensor_vars, now_ms, now_us, wifi_connected, g_queue_capacity, g_queue,
                   g_q_head, g_build_count, g_next_seq,
                   g_queue_overflow_drops, g_tx_pack_failures,
                   build_vars, sched_vars, ctl_vars,
                   frames_built, last_data>>

ServiceDataRx ==
    \E r \in RxResults(MaxRxBatch, {RxStart}) :
        /\ r.parse_errors <= MaxParseErrors
        /\ RxStep("data_rx", r)
        /\ UNCHANGED net_vars

(* The state service_control_rx() and service_blink() start from. *)
CtlStart ==
    [queue |-> g_queue, tail |-> g_q_tail, size |-> g_q_size, acks |-> {},
     clock_offset |-> g_clock_offset_us, blink_until |-> g_blink_until_ms,
     led_next |-> g_led_next_update_ms, leds_active |-> g_identify_leds_active,
     control_parse_errors |-> g_control_parse_errors,
     ack_out |-> <<>>, ack_calls |-> 0, err |-> <<>>]

(* One call of service_control_rx() with the datagram d pending.  last_op  *)
(* keeps the datagram, the Acks that left and what send_ack was asked.     *)
ControlRxStep(d, outcome) ==
    \E r \in {service_control_rx(CtlStart, d, now_ms, now_us, outcome)} :
        /\ g_q_tail' = r.tail
        /\ g_q_size' = r.size
        /\ g_clock_offset_us' = r.clock_offset
        /\ g_blink_until_ms' = r.blink_until
        /\ g_led_next_update_ms' = r.led_next
        /\ g_control_parse_errors' = r.control_parse_errors
        /\ removed' = removed \cup RemovedBy(r)
        /\ wire_out' = <<>>
        /\ last_op' = [op |-> "control_rx", acks |-> r.acks,
                       trimmed |-> RemovedBy(r), rx |-> d,
                       ack_out |-> r.ack_out, ack_calls |-> r.ack_calls,
                       err |-> r.err]
        /\ UNCHANGED <<svc_vars, sensor_vars, now_ms, now_us, wifi_connected, g_queue_capacity, g_queue,
                       g_q_head, g_build_count, g_next_seq,
                       g_queue_overflow_drops, g_tx_pack_failures,
                       g_data_ack_parse_errors, build_vars, sched_vars,
                       g_identify_leds_active, frames_built, last_data>>

ServiceControlRx ==
    \E d \in InboundData :
        /\ ControlRxStep(d, "ok")
        /\ UNCHANGED net_vars

Next ==
    \/ Tick
    \/ WifiChange
    \/ SampleOnce
    \/ ServiceTx
    \/ ServiceDataRx
    \/ ServiceControlRx

Spec == Init /\ [][Next]_vars

(***************************************************************************)
(* Delivery.  The second specification closes the loop through the network *)
(* and the collector: a Data datagram that left the node is in flight      *)
(* until it is lost or received; the collector answers every Data it       *)
(* receives with a DataAck carrying that sequence number, which is in      *)
(* flight until it is lost or read by service_data_rx.  The link comes up  *)
(* and stays up, and every transport send succeeds.                        *)
(***************************************************************************)
(* millis() enters the program only through now_ms - last_tx_ms compared   *)
(* with kDataRetransmitIntervalMs.  Once the clock passes MaxNowMs the     *)
(* origin of time is moved forward by `shift`: differences are kept, and a *)
(* send older than the new origin is placed at it, which leaves it at      *)
(* least MaxNowMs >= kDataRetransmitIntervalMs in the past.                *)
LiveTick ==
    LET new_now == now_ms + kDataRetransmitIntervalMs
        shift == IF new_now > MaxNowMs THEN new_now - MaxNowMs ELSE 0
    IN  /\ now_ms' = new_now - shift
        /\ now_us' = now_ms' * 1000
        /\ g_queue' = [i \in DOMAIN g_queue |->
                          [g_queue[i] EXCEPT !.last_tx_ms =
                              IF @ > shift THEN @ - shift ELSE 0]]
        /\ last_data' = IF last_data = <<>>
                        THEN <<>>
                        ELSE [last_data EXCEPT !.at = IF @ > shift THEN @ - shift ELSE 0]
        /\ wire_out' = <<>>
        /\ last_op' = [op |-> "tick"]
        /\ UNCHANGED <<svc_vars, sensor_vars, wifi_connected, g_queue_capacity, g_q_head, g_q_tail,
                       g_q_size, g_build_count, g_next_seq,
                       g_queue_overflow_drops, g_tx_pack_failures,
                       g_data_ack_parse_errors, build_vars, sched_vars,
                       ctl_vars, frames_built, removed, net_vars>>

(* The link comes up. *)
LinkUp ==
    /\ ~wifi_connected
    /\ wifi_connected' = TRUE
    /\ wire_out' = <<>>
    /\ last_op' = [op |-> "wifi"]
    /\ UNCHANGED <<now_ms, now_us, node_vars, frames_built, removed, last_data,
                   net_vars>>

(* service_tx() with a transport that accepts every send. *)
LiveTx ==
    /\ TxStep([i \in 0 .. kMaxTxFramesPerLoop - 1 |-> "ok"])
    /\ net_data' = net_data \cup {wire_out'[i].seq : i \in 1 .. Len(wire_out')}
    /\ UNCHANGED <<net_ack, pend_vars>>

(* The collector receives a Data datagram and acknowledges it. *)
CollectorReceive ==
    \E s \in net_data :
        /\ net_data' = net_data \ {s}
        /\ net_ack' = net_ack \cup {s}
        /\ wire_out' = <<>>
        /\ last_op' = [op |-> "collector"]
        /\ UNCHANGED <<now_ms, now_us, wifi_connected, node_vars, frames_built,
                       removed, last_data, pend_vars>>

(* The network loses a datagram. *)
Lose ==
    /\ \/ \E s \in net_data : net_data' = net_data \ {s} /\ UNCHANGED net_ack
       \/ \E s \in net_ack : net_ack' = net_ack \ {s} /\ UNCHANGED net_data
    /\ wire_out' = <<>>
    /\ last_op' = [op |-> "lose"]
    /\ UNCHANGED <<now_ms, now_us, wifi_connected, node_vars, frames_built,
                   removed, last_data, pend_vars>>

(* service_data_rx() reads a DataAck of the collector. *)
LiveDataRx ==
    \E s \in net_ack :
        /\ RxStep("data_rx", service_data_rx(<<DataAck(g_client_id, s)>>, RxStart))
        /\ net_ack' = net_ack \ {s}
        /\ UNCHANGED <<net_data, pend_vars>>

NextLive ==
    \/ LiveTick
    \/ LinkUp
    \/ SampleOnce
    \/ LiveTx
    \/ CollectorReceive
    \/ Lose
    \/ LiveDataRx

(* loop() runs forever, so time passes and service_tx is called again and  *)
(* again; a datagram sent again and again is eventually received, and so   *)
(* is the acknowledgment of a frame acknowledged again and again.          *)
Fairness ==
    /\ WF_vars(LiveTick)
    /\ WF_vars(LinkUp)
    /\ WF_vars(LiveTx)
    /\ SF_vars(CollectorReceive)
    /\ SF_vars(LiveDataRx)

SpecLive == Init /\ [][NextLive]_vars /\ Fairness

(***************************************************************************)
(* Sequence numbering.  The third specification follows a longer run of    *)
(* frames through the queue, with acknowledgments of every kind arriving   *)
(* on the data socket in between and nothing being transmitted.            *)
(***************************************************************************)
NumberingSample ==
    \E got_sample \in BOOLEAN :
        SampleStepUpTo(got_sample, MaxSeqFrames) /\ UNCHANGED <<sensor_vars, net_vars>>

NextNumbering ==
    \/ NumberingSample
    \/ ServiceDataRx

SpecNumbering == Init /\ [][NextNumbering]_vars

(***************************************************************************)
(* The sampling scheduler.  The fourth specification runs                  *)
(* service_sampling() against a clock in microseconds: between two calls   *)
(* the clock advances by just less than a step or by a stall as long as    *)
(* one call can catch up; inside a call the samples take no                *)
(* time but the one of iteration stall_at, which takes a whole step.  The  *)
(* sensor delivers until read fail_at.  The run ends with the clock at     *)
(* MaxNowUs, MaxSchedFrames frames built or MaxMissed samples missed.      *)
(***************************************************************************)
TickUs == {step_us - 1, kMaxCatchUpSamplesPerLoop * step_us}

SchedTick ==
    \E dt \in TickUs :
        /\ now_us + dt <= MaxNowUs
        /\ now_us' = now_us + dt
        /\ now_ms' = now_us' \div 1000
        /\ wire_out' = <<>>
        /\ last_op' = [op |-> "tick"]
        /\ UNCHANGED <<wifi_connected, node_vars, frames_built, removed,
                       last_data, net_vars>>

Iterations == 0 .. kMaxCatchUpSamplesPerLoop - 1

(* The sequence numbers that n calls of enqueue_frame assign. *)
SeqsFrom(seq, n) == {U32Add(seq, U32(k)) : k \in 0 .. n - 1}

SamplingStep(got, cost) ==
    \E r \in {service_sampling(CurS, now_us, got, cost)} :
    LET completed == (g_build_count + r.taken) \div kFrameSamples
        inserted == IF g_queue_capacity = 0 THEN 0 ELSE completed
    IN  /\ frames_built + completed <= MaxSchedFrames
        /\ r.now <= MaxNowUs
        /\ r.st.missed <= MaxMissed
        /\ now_us' = r.now
        /\ now_ms' = r.now \div 1000
        /\ g_queue' = r.st.queue
        /\ g_q_head' = r.st.head
        /\ g_q_tail' = r.st.tail
        /\ g_q_size' = r.st.size
        /\ g_queue_overflow_drops' = r.st.drops
        /\ g_next_seq' = r.st.next_seq
        /\ g_build_count' = r.st.build_count
        /\ g_build_t0_us' = r.st.build_t0
        /\ g_build_xyz' = r.st.build_xyz
        /\ g_next_sample_due_us' = r.st.due
        /\ g_sampling_missed_samples' = r.st.missed
        /\ frames_built' = frames_built + completed
        /\ removed' = removed \cup
                ((SeqsOf(QueueSeq) \cup SeqsFrom(g_next_seq, inserted))
                    \ SeqsOf(FramesOf(r.st)))
        /\ wire_out' = <<>>
        /\ last_op' = [op |-> "sampling", taken |-> r.taken,
                       skipped |-> r.skipped, starved |-> ~r.st.ok]
        /\ UNCHANGED <<svc_vars, sensor_vars, wifi_connected, g_queue_capacity, g_tx_pack_failures,
                       g_data_ack_parse_errors, ctl_vars, last_data, net_vars>>

ServiceSampling ==
    \E fail_at \in 0 .. kMaxCatchUpSamplesPerLoop,
       stall_at \in {0, kMaxCatchUpSamplesPerLoop} :
        SamplingStep([i \in Iterations |-> i # fail_at],
                     [i \in Iterations |-> IF i = stall_at THEN step_us ELSE 0])

(* The collector synchronises the node's clock: its own clock is ahead of  *)
(* of esp_timer_get_time() by one of ServerSkewUs.                         *)
ServerSkewUs == {70000}

SyncClockCmd(cmd_seq, server_time_us) ==
    Cmd(kCmdSyncClockBytes, kMsgCmd, kProtoVersion, g_client_id,
        kCmdSyncClock, cmd_seq, 0, server_time_us)

SchedSyncClock ==
    \E skew \in ServerSkewUs :
        /\ ControlRxStep(SyncClockCmd(7, now_us + skew), "ok")
        /\ UNCHANGED net_vars

NextSampling ==
    \/ SchedTick
    \/ ServiceSampling
    \/ SchedSyncClock

SpecSampling == Init /\ [][NextSampling]_vars

(***************************************************************************)
(* The control plane.  The fifth specification hands every kind of         *)
(* datagram to service_control_rx() and service_data_rx(): well-formed     *)
(* commands (Identify, SyncClock, an unknown cmd_id), commands and         *)
(* acknowledgments that are too short, of another message type, of         *)
(* another protocol version or addressed to another node, and an empty     *)
(* read; the Ack may or may not leave the node.  Sampling, transmission,   *)
(* the link and the identify indicator run in between.                     *)
(***************************************************************************)
IdentifyMs == {100, 2 * kMaxIdentifyDurationMs}

IdentifyCmd(cmd_seq, identify_ms) ==
    Cmd(kCmdIdentifyBytes, kMsgCmd, kProtoVersion, g_client_id,
        kCmdIdentify, cmd_seq, identify_ms, 0)

(* Commands that parse. *)
GoodCmds ==
    {IdentifyCmd(7, ms) : ms \in IdentifyMs}
        \cup {SyncClockCmd(8, now_us + skew) : skew \in ServerSkewUs}
        \cup {CmdDatagram}

(* Datagrams that parse_cmd rejects. *)
BadCmds ==
    {[SyncClockCmd(8, now_us + 1) EXCEPT !.client_id = "other"],
     [SyncClockCmd(8, now_us + 1) EXCEPT !.proto_version = kProtoVersion + 1],
     [SyncClockCmd(8, now_us + 1) EXCEPT !.msg_type = kMsgHello],
     [SyncClockCmd(8, now_us + 1) EXCEPT !.len = kCmdSyncClockBytes - 1],
     [IdentifyCmd(7, 100) EXCEPT !.len = kCmdHeaderBytes + 1]}

(* DataAck datagrams that parse_data_ack rejects. *)
BadAcks ==
    {DataAck("other", AckFront),
     [DataAck(g_client_id, AckFront) EXCEPT !.proto_version = kProtoVersion + 1],
     [DataAck(g_client_id, AckFront) EXCEPT !.len = kDataAckBytes - 1]}

(* A read that returns no byte. *)
EmptyRead == [DataAck(g_client_id, AckFront) EXCEPT !.len = 0]

CtlTick == TickBy(MaxNowMs)

CtlSample ==
    SampleStepUpTo(TRUE, MaxCtlFrames) /\ UNCHANGED <<sensor_vars, net_vars>>

CtlTx ==
    /\ TxStep([i \in 0 .. kMaxTxFramesPerLoop - 1 |-> "ok"])
    /\ UNCHANGED net_vars

(* service_data_rx() with the one datagram d pending. *)
DataRxStep(d) ==
    \E r \in {service_data_rx(<<d>>, RxStart)} :
        /\ g_q_tail' = r.tail
        /\ g_q_size' = r.size
        /\ g_data_ack_parse_errors' = r.parse_errors
        /\ removed' = removed \cup RemovedBy(r)
        /\ wire_out' = <<>>
        /\ last_op' = [op |-> "data_rx", acks |-> r.acks,
                       trimmed |-> RemovedBy(r), rx |-> d]
        /\ UNCHANGED <<svc_vars, sensor_vars, now_ms, now_us, wifi_connected, g_queue_capacity, g_queue,
                       g_q_head, g_build_count, g_next_seq,
                       g_queue_overflow_drops, g_tx_pack_failures,
                       build_vars, sched_vars, ctl_vars,
                       frames_built, last_data>>

CtlDataRx ==
    \E d \in {DataAck(g_client_id, AckFront), CmdDatagram, EmptyRead} \cup BadAcks :
        /\ DataRxStep(d)
        /\ g_data_ack_parse_errors' + g_control_parse_errors' <= MaxParseErrors
        /\ UNCHANGED net_vars

(* One call of service_control_rx().  Only a command that parses reaches   *)
(* send_ack(), so only then does the transport's outcome matter.           *)
CtlControlRx ==
    /\ \/ \E d \in GoodCmds, outcome \in {"ok", "end_fail"} :
              ControlRxStep(d, outcome)
       \/ \E d \in BadCmds \cup BadAcks
                    \cup {DataAck(g_client_id, AckFront), EmptyRead} :
              ControlRxStep(d, "ok")
    /\ g_data_ack_parse_errors' + g_control_parse_errors' <= MaxParseErrors
    /\ UNCHANGED net_vars

(* One call of service_blink(). *)
ServiceBlink ==
    \E r \in {service_blink(CtlStart, now_ms)} :
        /\ g_blink_until_ms' = r.blink_until
        /\ g_led_next_update_ms' = r.led_next
        /\ g_identify_leds_active' = r.leds_active
        /\ wire_out' = <<>>
        /\ last_op' = [op |-> "blink"]
        /\ UNCHANGED <<svc_vars, sensor_vars, now_ms, now_us, wifi_connected, queue_vars, g_build_count,
                       g_next_seq, g_queue_overflow_drops, g_tx_pack_failures,
                       g_data_ack_parse_errors, build_vars, sched_vars,
                       g_clock_offset_us, g_control_parse_errors,
                       frames_built, removed, last_data, net_vars>>

NextControl ==
    \/ CtlTick
    \/ WifiChange
    \/ CtlSample
    \/ CtlTx
    \/ CtlDataRx
    \/ CtlControlRx
    \/ ServiceBlink

SpecControl == Init /\ [][NextControl]_vars

(***************************************************************************)
(* The periodic Hello: the clock, sampling (which fills the queue and then *)
(* drops for capacity; no frame is acknowledged) and service_hello().      *)
(***************************************************************************)
HelloTickMs == {kHelloIntervalMs - 1, kHelloIntervalMs}

HelloTick ==
    \E dt \in HelloTickMs :
        /\ now_ms + dt <= MaxHelloNowMs
        /\ now_ms' = now_ms + dt
        /\ now_us' = now_us + dt * 1000
        /\ wire_out' = <<>>
        /\ last_op' = [op |-> "tick"]
        /\ UNCHANGED <<wifi_connected, node_vars, frames_built, removed,
                       last_data, net_vars>>

HelloSample ==
    /\ SampleStepUpTo(TRUE, MaxHelloFrames)
    /\ UNCHANGED <<sensor_vars, net_vars>>

HelloStart ==
    [last_hello |-> g_last_hello_ms, drops |-> g_queue_overflow_drops,
     hello_out |-> <<>>, hello_calls |-> 0, err |-> <<>>]

(* One call of service_hello().  last_op keeps the Hello datagrams that    *)
(* left and the number of calls of send_hello.                             *)
ServiceHello ==
    \E outcome \in {"ok", "end_fail"} :
    \E r \in {service_hello(HelloStart, now_ms, outcome)} :
        /\ g_last_hello_ms' = r.last_hello
        /\ wire_out' = <<>>
        /\ last_op' = [op |-> "hello", hello_out |-> r.hello_out,
                       hello_calls |-> r.hello_calls, err |-> r.err]
        /\ UNCHANGED <<now_ms, now_us, wifi_connected, queue_vars,
                       g_build_count, g_next_seq, g_queue_overflow_drops,
                       g_tx_pack_failures, g_data_ack_parse_errors, build_vars,
                       sched_vars, ctl_vars, link_vars, sensor_vars,
                       frames_built, removed, last_data, net_vars>>

NextHello ==
    \/ HelloTick
    \/ HelloSample
    \/ ServiceHello

SpecHello == Init /\ [][NextHello]_vars

(***************************************************************************)
(* The link: the clock, the link going down and coming back, and           *)
(* service_wifi().  millis() is a 32-bit counter that wraps after 49.7     *)
(* days; Uptime is a long quiet stretch with the link up that ends         *)
(* WrapAheadMs before the wrap.  link_hist follows the outage that         *)
(* service_wifi is dealing with: when it first saw the link down, the      *)
(* attempts since, and the time (on the scale of now_ms, which does not    *)
(* wrap) that the latest attempt set for the next one.                     *)
(***************************************************************************)
millis == U32Add(now_base, U32(now_ms))

(* Milliseconds until millis() wraps, when that is near. *)
ToWrap == IF millis[1] = Half - 1 THEN Half - millis[2] ELSE 0

Uptime ==
    /\ wifi_connected
    /\ now_base = <<0, 0>>
    /\ g_wifi_retry_failures = 0
    /\ g_wifi_next_retry_ms = <<0, 0>>
    /\ link_hist = NoOutage
    /\ now_base' = <<Half - 1, Half - WrapAheadMs>>
    /\ wire_out' = <<>>
    /\ last_op' = [op |-> "uptime"]
    /\ UNCHANGED <<now_ms, now_us, wifi_connected, queue_vars, g_build_count,
                   g_next_seq, g_queue_overflow_drops, g_tx_pack_failures,
                   g_data_ack_parse_errors, build_vars, sched_vars, ctl_vars,
                   g_last_hello_ms, g_wifi_retry_failures,
                   g_wifi_next_retry_ms, g_wifi_reconnect_attempts, link_hist,
                   sensor_vars, frames_built, removed, last_data, net_vars>>

(* The link goes down (in the first MaxDropMs of the run, after at most    *)
(* MaxEarlyAttempts attempts) or comes back.                               *)
LinkChange ==
    /\ wifi_connected =>
           /\ now_ms <= MaxDropMs
           /\ g_wifi_reconnect_attempts <= MaxEarlyAttempts
    /\ WifiChange

(* The clock moves on: to the millisecond before the time set for the next *)
(* attempt and to that time, by 3 s when none is set, to the end of the    *)
(* first 30 s of the outage, or by 1 ms right after an attempt.            *)
LinkTickMs ==
    (IF link_hist.down /\ link_hist.sched > now_ms
     THEN {link_hist.sched - now_ms}
              \cup {d \in {link_hist.sched - now_ms - 1} : d > 0}
     ELSE {3000})
        \cup (IF link_hist.down
              THEN {d \in {link_hist.since + 30000 - now_ms} : d > 0}
              ELSE {})
        \cup (IF last_op.op = "wifi_service" /\ last_op.attempted
              THEN {1}
              ELSE {})

LinkTick ==
    \E dt \in LinkTickMs :
        /\ now_ms + dt <= MaxLinkNowMs
        /\ now_ms' = now_ms + dt
        /\ now_us' = now_us + dt * 1000
        /\ wire_out' = <<>>
        /\ last_op' = [op |-> "tick"]
        /\ UNCHANGED <<wifi_connected, node_vars, frames_built, removed,
                       last_data, net_vars>>

LinkStart ==
    [failures |-> g_wifi_retry_failures, next_retry |-> g_wifi_next_retry_ms,
     reconnect_attempts |-> g_wifi_reconnect_attempts, err |-> <<>>]

(* jitter_span of compute_retry_delay_ms at the given failure count. *)
JitterSpan(failure_count) ==
    LET shift == IF failure_count < 6 THEN failure_count ELSE 6
        shifted == kWifiRetryIntervalMs * (2 ^ shift)
    IN  (IF shifted > kWifiRetryIntervalMaxMs
         THEN kWifiRetryIntervalMaxMs ELSE shifted) \div 4

(* The values of esp_random() tried: the two ends of the jitter range and, *)
(* near the wrap of millis(), the one that puts the next attempt exactly   *)
(* at the wrap.                                                            *)
RandomValues ==
    LET failures == saturating_inc_u8(g_wifi_retry_failures)
        span == JitterSpan(failures)
        shortest == compute_retry_delay_ms(kWifiRetryIntervalMs,
                                           kWifiRetryIntervalMaxMs, failures, 0)
    IN  {0, span - 1} \cup {r \in {ToWrap - shortest} : r >= 0 /\ r < span}

(* One call of service_wifi().  last_op tells whether an attempt was made, *)
(* and what link_hist held before.                                         *)
ServiceWifi ==
    \E random_value \in RandomValues :
    \E r \in {service_wifi(LinkStart, wifi_connected, millis, random_value)} :
        LET attempted == r.reconnect_attempts # g_wifi_reconnect_attempts
            delay == compute_retry_delay_ms(kWifiRetryIntervalMs,
                                            kWifiRetryIntervalMaxMs,
                                            r.failures, random_value)
        IN  /\ g_wifi_retry_failures' = r.failures
            /\ g_wifi_next_retry_ms' = r.next_retry
            /\ g_wifi_reconnect_attempts' = r.reconnect_attempts
            /\ link_hist' =
                   IF wifi_connected THEN NoOutage
                   ELSE IF ~attempted THEN link_hist
                   ELSE [down |-> TRUE,
                         since |-> IF link_hist.down THEN link_hist.since
                                   ELSE now_ms,
                         attempts |-> link_hist.attempts + 1,
                         sched |-> now_ms + delay]
            /\ wire_out' = <<>>
            /\ last_op' = [op |-> "wifi_service", attempted |-> attempted,
                           random_value |-> random_value, err |-> r.err,
                           before |-> link_hist]
            /\ UNCHANGED <<now_ms, now_us, wifi_connected, queue_vars,
                           g_build_count, g_next_seq, g_queue_overflow_drops,
                           g_tx_pack_failures, g_data_ack_parse_errors,
                           build_vars, sched_vars, ctl_vars, g_last_hello_ms,
                           now_base, sensor_vars, frames_built, removed,
                           last_data, net_vars>>

NextLink ==
    \/ LinkTick
    \/ LinkChange
    \/ Uptime
    \/ ServiceWifi

SpecLink == Init /\ [][NextLink]_vars

(***************************************************************************)
(* The sensor: the clock and sample_once() with next_sensor_sample()       *)
(* reading the sensor.  The sensor may have been found at boot or not.     *)
(***************************************************************************)
SensorTickMs == {kSensorReinitCooldownMs - 1, kSensorReinitCooldownMs}

SensorTick ==
    \E dt \in SensorTickMs :
        /\ now_ms + dt <= MaxSensorNowMs
        /\ now_ms' = now_ms + dt
        /\ now_us' = now_us + dt * 1000
        /\ wire_out' = <<>>
        /\ last_op' = [op |-> "tick"]
        /\ UNCHANGED <<wifi_connected, node_vars, frames_built, removed,
                       last_data, net_vars>>

(* What read_samples() can answer: nothing, a batch, a batch cut short by  *)
(* the FIFO, an I/O error before any sample or after the first.            *)
Reads ==
    {[count |-> 0, io_error |-> FALSE, fifo_truncated |-> FALSE],
     [count |-> 2, io_error |-> FALSE, fifo_truncated |-> FALSE],
     [count |-> kSensorReadBatchSamples, io_error |-> FALSE, fifo_truncated |-> TRUE],
     [count |-> 0, io_error |-> TRUE, fifo_truncated |-> FALSE],
     [count |-> 1, io_error |-> TRUE, fifo_truncated |-> FALSE]}

SensorStart ==
    [ok |-> g_sensor_ok, batch_count |-> g_sensor_batch_count,
     batch_index |-> g_sensor_batch_index,
     consecutive_errors |-> g_sensor_consecutive_errors,
     last_reinit |-> g_last_sensor_reinit_ms,
     reinit_attempts |-> g_sensor_reinit_attempts,
     reinit_success |-> g_sensor_reinit_success,
     read_errors |-> g_sensor_read_errors, err |-> <<>>, got |-> FALSE]

(* One call of sample_once(): next_sensor_sample(), then the sample goes   *)
(* to the build buffer.                                                    *)
SensorSampleOnce ==
    \E read \in Reads, begin_ok \in BOOLEAN :
    \E r \in {next_sensor_sample(SensorStart, now_ms, read, begin_ok)} :
        /\ r.read_errors <= MaxReadErrors
        /\ g_sensor_ok' = r.ok
        /\ g_sensor_batch_count' = r.batch_count
        /\ g_sensor_batch_index' = r.batch_index
        /\ g_sensor_consecutive_errors' = r.consecutive_errors
        /\ g_last_sensor_reinit_ms' = r.last_reinit
        /\ g_sensor_reinit_attempts' = r.reinit_attempts
        /\ g_sensor_reinit_success' = r.reinit_success
        /\ g_sensor_read_errors' = r.read_errors
        /\ SampleStepUpTo(r.got, MaxSensorFrames)
        /\ UNCHANGED net_vars

NextSensor ==
    \/ SensorTick
    \/ SensorSampleOnce

SpecSensor == (\E adxl_begin \in BOOLEAN : Setup(adxl_begin)) /\ [][NextSensor]_vars

(***************************************************************************)
(* A sensor that keeps failing: every read_samples() reports an I/O error, *)
(* before the first cooldown is over (4999 ms) or when it is (5000 ms).    *)
(***************************************************************************)
FaultTick ==
    \E dt \in {1, kSensorReinitCooldownMs - 1} :
        /\ now_ms + dt <= kSensorReinitCooldownMs
        /\ now_ms \in {0, kSensorReinitCooldownMs - 1}
        /\ now_ms' = now_ms + dt
        /\ now_us' = now_us + dt * 1000
        /\ wire_out' = <<>>
        /\ last_op' = [op |-> "tick"]
        /\ UNCHANGED <<wifi_connected, node_vars, frames_built, removed,
                       last_data, net_vars>>

FaultyReads ==
    {[count |-> 0, io_error |-> TRUE, fifo_truncated |-> FALSE]}

FaultySampleOnce ==
    \E read \in FaultyReads, begin_ok \in BOOLEAN :
    \E r \in {next_sensor_sample(SensorStart, now_ms, read, begin_ok)} :
        /\ r.read_errors <= MaxFaults
        /\ g_sensor_ok' = r.ok
        /\ g_sensor_batch_count' = r.batch_count
        /\ g_sensor_batch_index' = r.batch_index
        /\ g_sensor_consecutive_errors' = r.consecutive_errors
        /\ g_last_sensor_reinit_ms' = r.last_reinit
        /\ g_sensor_reinit_attempts' = r.reinit_attempts
        /\ g_sensor_reinit_success' = r.reinit_success
        /\ g_sensor_read_errors' = r.read_errors
        /\ SampleStepUpTo(r.got, MaxSensorFrames)
        /\ UNCHANGED net_vars

NextFaults ==
    \/ FaultTick
    \/ FaultySampleOnce

SpecFaults == Init /\ [][NextFaults]_vars

(***************************************************************************)
(* The wire codec on its own: every kind of message is encoded into a      *)
(* buffer one byte too small, exactly large enough, or as large as the     *)
(* caller's, and what was written is decoded again.  last_op keeps the     *)
(* message m, the bytes written, what the decoder read, and what the       *)
(* caller of the pack function then sent.                                  *)
(***************************************************************************)
ClientIds == {g_client_id_bytes, <<36, 10, 196, 255, 0, 128>>}

U32s == {<<0, 0>>, <<4660, 22136>>, <<Half - 1, Half - 1>>}

U64s == {<<1, 2, 3, 4>>, <<Half - 1, Half - 1, Half - 1, Half - 1>>}

(* Strings of n bytes. *)
Str(n) == [i \in 1 .. n |-> 65 + (i % 26)]

Names == {<<>>, kClientName, Str(32), Str(33)}

Undecoded == [msg_type |-> 0]

HelloNeed(m) ==
    kHelloFixedBytes + strnlen(m.name, 32) + strnlen(m.firmware_version, 32)

PackHello ==
    \E client_id \in ClientIds, control_port \in {g_control_port},
       name \in Names, firmware_version \in {kFirmwareVersion, Str(40)},
       queue_overflow_drops \in U32s, slack \in {-1, 0, 1} :
    LET m == [msg_type |-> kMsgHello, proto_version |-> kProtoVersion,
              client_id |-> client_id, control_port |-> control_port,
              sample_rate_hz |-> kSampleRateHz, frame_samples |-> kFrameSamples,
              name |-> name, firmware_version |-> firmware_version,
              queue_overflow_drops |-> queue_overflow_drops]
        out_len == IF slack = 1 THEN 128 ELSE HelloNeed(m) + slack
    IN  \E packet \in {pack_hello_bytes(out_len, client_id, control_port,
                                         kSampleRateHz, kFrameSamples, name,
                                         firmware_version,
                                         queue_overflow_drops)} :
        /\ last_op' = [op |-> "pack_hello", m |-> m, out_len |-> out_len,
                       packet |-> packet,
                       decoded |-> IF packet = <<>> THEN Undecoded
                                   ELSE parse_hello(packet),
                       sent |-> send_hello_packet(HelloStart, packet, "ok").hello_out]
        /\ wire_out' = <<>>
        /\ UNCHANGED <<now_ms, now_us, wifi_connected, node_vars, frames_built,
                       removed, last_data, net_vars>>

(* Interleaved samples, by sample count. *)
Payloads ==
    {<<>>, <<-32768, -1, 32767>>, <<0, 1, 256>>,
     <<-2, 255, -256, 0, 1, -32768>>, <<1, 2, 3, 4, 5, 6, 7, 8, 9>>}

(* The queue with one frame of sample_count samples at its front. *)
OneFrame(seq, sample_count) ==
    [queue |-> [i \in 0 .. g_queue_capacity - 1 |->
                   [NoFrame EXCEPT !.seq = seq, !.sample_count = sample_count]],
     tail |-> 0, size |-> IF g_queue_capacity > 0 THEN 1 ELSE 0,
     pack_failures |-> 0, out |-> <<>>, ev |-> <<>>]

PackData ==
    \E client_id \in ClientIds, seq \in U32s, t0_us \in U64s,
       xyz \in Payloads, slack \in {-1, 0, 1} :
    LET sample_count == Len(xyz) \div 3
        m == [msg_type |-> kMsgData, proto_version |-> kProtoVersion,
              client_id |-> client_id, seq |-> seq, t0_us |-> t0_us,
              sample_count |-> sample_count, xyz |-> xyz]
        need == kDataHeaderBytes + 6 * sample_count
        out_len == IF slack = 1 THEN kMaxDatagramBytes ELSE need + slack
    IN  \E packet \in {pack_data_bytes(out_len, client_id, seq, t0_us, xyz,
                                        sample_count)} :
        /\ last_op' = [op |-> "pack_data", m |-> m, out_len |-> out_len,
                       packet |-> packet,
                       decoded |-> IF packet = <<>> THEN Undecoded
                                   ELSE parse_data(packet),
                       len |-> pack_data(out_len, sample_count),
                       tx |-> tx_loop(0, OneFrame(seq, sample_count), now_ms,
                                      [i \in 0 .. kMaxTxFramesPerLoop - 1 |-> "ok"])]
        /\ wire_out' = <<>>
        /\ UNCHANGED <<now_ms, now_us, wifi_connected, node_vars, frames_built,
                       removed, last_data, net_vars>>

PackAck ==
    \E client_id \in ClientIds, cmd_seq \in U32s, status \in {0, 2, 255},
       out_len \in {kAckBytes - 1, kAckBytes, 16} :
    LET m == [msg_type |-> kMsgAck, proto_version |-> kProtoVersion,
              client_id |-> client_id, cmd_seq |-> cmd_seq, status |-> status]
    IN  \E packet \in {pack_ack_bytes(out_len, client_id, cmd_seq, status)} :
        /\ last_op' = [op |-> "pack_ack", m |-> m, out_len |-> out_len,
                       packet |-> packet,
                       decoded |-> IF packet = <<>> THEN Undecoded
                                   ELSE parse_ack(packet),
                       len |-> pack_ack(out_len)]
        /\ wire_out' = <<>>
        /\ UNCHANGED <<now_ms, now_us, wifi_connected, node_vars, frames_built,
                       removed, last_data, net_vars>>

PackDataAck ==
    \E client_id \in ClientIds, last_seq_received \in U32s,
       out_len \in {kDataAckBytes - 1, kDataAckBytes, 16} :
    LET m == [ok |-> TRUE, last_seq_received |-> last_seq_received]
    IN  \E packet \in {pack_data_ack_bytes(out_len, client_id,
                                            last_seq_received)} :
        /\ last_op' = [op |-> "pack_data_ack", m |-> m, out_len |-> out_len,
                       packet |-> packet,
                       decoded |-> IF packet = <<>> THEN Undecoded
                                   ELSE parse_data_ack_bytes(packet, client_id)]
        /\ wire_out' = <<>>
        /\ UNCHANGED <<now_ms, now_us, wifi_connected, node_vars, frames_built,
                       removed, last_data, net_vars>>

(* A command of the collector, encoded and parsed by the node it is for. *)
PackCmd ==
    \E client_id \in ClientIds, cmd_seq \in U32s,
       cmd \in ({kCmdIdentify} \X {0, 300, 65535} \X {<<0, 0, 0, 0>>})
                 \cup ({kCmdSyncClock} \X {0} \X U64s)
                 \cup ({9, 255} \X {0} \X {<<0, 0, 0, 0>>}) :
    LET m == [ok |-> TRUE, cmd_id |-> cmd[1], cmd_seq |-> cmd_seq,
              identify_ms |-> cmd[2], server_time_us |-> cmd[3]]
    IN  \E packet \in {pack_cmd_bytes(client_id, cmd[1], cmd_seq, cmd[2], cmd[3])} :
        /\ last_op' = [op |-> "pack_cmd", m |-> m, out_len |-> Len(packet),
                       packet |-> packet,
                       decoded |-> parse_cmd_bytes(packet, client_id)]
        /\ wire_out' = <<>>
        /\ UNCHANGED <<now_ms, now_us, wifi_connected, node_vars, frames_built,
                       removed, last_data, net_vars>>

NextCodec ==
    \/ PackHello
    \/ PackData
    \/ PackAck
    \/ PackDataAck
    \/ PackCmd

SpecCodec == Init /\ [][NextCodec]_vars

(***************************************************************************)
(* The two sockets.  Datagrams arrive on the data socket and on the        *)
(* control socket and wait there until the node reads them:                *)
(* service_data_rx() reads until parsePacket() finds nothing,              *)
(* service_control_rx() calls parsePacket() once.                          *)
(***************************************************************************)
(* What arrives: acknowledgments around the queue, an acknowledgment for   *)
(* another node, and a command; at most MaxPending datagrams wait.         *)
Arrivals ==
    {DataAck(g_client_id, s) :
        s \in {U32Sub(AckFront, U32(1)), AckFront, U32Sub(g_next_seq, U32(1))}}
        \cup {DataAck("other", AckFront), CmdDatagram}

Arrive ==
    /\ Len(data_pending) + Len(control_pending) < MaxPending
    /\ \E d \in Arrivals :
          \/ /\ data_pending' = Append(data_pending, d)
             /\ UNCHANGED control_pending
          \/ /\ control_pending' = Append(control_pending, d)
             /\ UNCHANGED data_pending
    /\ wire_out' = <<>>
    /\ last_op' = [op |-> "arrive"]
    /\ UNCHANGED <<now_ms, now_us, wifi_connected, node_vars, frames_built,
                   removed, last_data, net_data, net_ack>>

InboundSample ==
    SampleStepUpTo(TRUE, MaxInboundFrames) /\ UNCHANGED <<sensor_vars, net_vars>>

(* service_data_rx(): every waiting datagram is read. *)
InboundDataRx ==
    /\ RxStep("data_rx", service_data_rx(data_pending, RxStart))
    /\ g_data_ack_parse_errors' <= MaxParseErrors
    /\ data_pending' = <<>>
    /\ UNCHANGED <<net_data, net_ack, control_pending>>

(* service_control_rx(): the oldest waiting datagram is read, if there is  *)
(* one.                                                                    *)
InboundControlRx ==
    /\ ControlRxStep(IF control_pending = <<>> THEN EmptyRead
                     ELSE Head(control_pending), "ok")
    /\ control_pending' = IF control_pending = <<>> THEN <<>>
                          ELSE Tail(control_pending)
    /\ UNCHANGED <<net_data, net_ack, data_pending>>

NextInbound ==
    \/ Arrive
    \/ InboundSample
    \/ InboundDataRx
    \/ InboundControlRx

SpecInbound == Init /\ [][NextInbound]_vars

(***************************************************************************)
(* Acknowledgments that are delayed, duplicated and reordered.  net_data   *)
(* holds the sequence numbers of the Data datagrams that have left the     *)
(* node, net_ack those the collector has received and acknowledged; the    *)
(* network may deliver an acknowledgment at any later time, any number of  *)
(* times and in any order, so neither set ever loses a member.  A long run *)
(* is 2^31 frames that are built, sent and acknowledged one after the      *)
(* other, compressed into one step: the queue is empty before and after,   *)
(* head and tail have gone 2^31 places round the ring, and frames_built    *)
(* does not count those frames.                                            *)
(***************************************************************************)
AckTx ==
    \E outcome \in [0 .. kMaxTxFramesPerLoop - 1 -> SendOutcomes] :
        /\ TxStep(outcome)
        /\ net_data' = net_data \cup {wire_out'[i].seq : i \in 1 .. Len(wire_out')}
        /\ UNCHANGED <<net_ack, pend_vars>>

AckCollector ==
    \E s \in net_data \ net_ack :
        /\ net_ack' = net_ack \cup {s}
        /\ wire_out' = <<>>
        /\ last_op' = [op |-> "collector"]
        /\ UNCHANGED <<now_ms, now_us, wifi_connected, node_vars, frames_built,
                       removed, last_data, net_data, pend_vars>>

(* The batches of acknowledgments the data socket may hold. *)
AckBatches ==
    UNION {[1 .. n -> net_ack] : n \in 1 .. MaxAckBatch}

AckDataRx ==
    \E batch \in AckBatches :
    \E r \in {service_data_rx([i \in 1 .. Len(batch) |-> DataAck(g_client_id, batch[i])], RxStart)} :
        /\ RxStep("data_rx", r)
        /\ UNCHANGED net_vars

LongRun ==
    LET turns == (((Half \div 2) % g_queue_capacity) * (Half % g_queue_capacity)) % g_queue_capacity
    IN
    /\ g_queue_capacity > 0
    /\ g_q_size = 0
    /\ g_next_seq[1] < Half \div 2
    /\ g_next_seq' = U32Add(g_next_seq, <<Half \div 2, 0>>)
    /\ g_q_head' = (g_q_head + turns) % g_queue_capacity
    /\ g_q_tail' = (g_q_tail + turns) % g_queue_capacity
    /\ wire_out' = <<>>
    /\ last_op' = [op |-> "long_run"]
    /\ UNCHANGED <<now_ms, now_us, wifi_connected, g_queue_capacity, g_queue, g_q_size, g_build_count,
                   g_queue_overflow_drops, g_tx_pack_failures,
                   g_data_ack_parse_errors, build_vars, sched_vars, ctl_vars,
                   svc_vars, sensor_vars, frames_built, removed, last_data,
                   net_vars>>

NextAcks ==
    \/ LiveTick
    \/ WifiChange
    \/ SampleOnce
    \/ AckTx
    \/ AckCollector
    \/ AckDataRx
    \/ LongRun

SpecAcks == Init /\ [][NextAcks]_vars

(***************************************************************************)
(* loop().  One tick calls the services in the order of loop(), each to    *)
(* its end before the next; last_op tells which one ran last.  Datagrams   *)
(* arrive while the node sleeps in delay(1), which with the rest of the    *)
(* tick takes DelayMs; the sensor delivers and every datagram leaves.      *)
(* report_runtime_status() prints the counters at most once per            *)
(* kStatusReportIntervalMs and changes none of them; it runs last, right   *)
(* before delay(1).                                                        *)
(***************************************************************************)
BetweenTicks == last_op.op \in {"boot", "tick", "arrive"}

LoopArrive == BetweenTicks /\ Arrive

LoopWifi == BetweenTicks /\ ServiceWifi

LoopDataRx == last_op.op = "wifi_service" /\ InboundDataRx

LoopSampling == last_op.op = "data_rx" /\ SamplingStep([i \in Iterations |-> TRUE], [i \in Iterations |-> 0])

LoopTx == last_op.op = "sampling" /\ CtlTx

LoopHello == last_op.op = "tx" /\ ServiceHello

LoopControlRx == last_op.op = "hello" /\ InboundControlRx

LoopBlink == last_op.op = "control_rx" /\ ServiceBlink

LoopDelay == last_op.op = "blink" /\ \E dt \in DelayMs : TickBy(dt)

NextLoop ==
    \/ LoopArrive
    \/ LoopWifi
    \/ LoopDataRx
    \/ LoopSampling
    \/ LoopTx
    \/ LoopHello
    \/ LoopControlRx
    \/ LoopBlink
    \/ LoopDelay

SpecLoop == Init /\ [][NextLoop]_vars

(***************************************************************************)
(* parse_cmd on datagrams that are not well-formed commands for this node. *)
(* A command is encoded for client_id and then damaged in one way: cut to  *)
(* n bytes, followed by extra bytes, given another msg_type or             *)
(* proto_version, or parsed by a node with another identity.               *)
(***************************************************************************)
CmdChoices ==
    ({kCmdIdentify} \X {0, 300, 65535} \X {<<0, 0, 0, 0>>})
        \cup ({kCmdSyncClock} \X {0} \X U64s)
        \cup ({0, 9, 255} \X {0} \X {<<0, 0, 0, 0>>})

CutLengths == {0, 1, kCmdHeaderBytes - 1, kCmdHeaderBytes, kCmdHeaderBytes + 1, kCmdSyncClockBytes - 1}

Damages(packet) ==
    ({"cut"} \X {n \in CutLengths : n < Len(packet)})
        \cup ({"intact", "longer", "client"} \X {0})
        \cup ({"type"} \X {0, kMsgHello, kMsgData, kMsgAck, kMsgDataAck, 255})
        \cup ({"version"} \X {0, kProtoVersion + 1, 255})

Damaged(packet, dmg) ==
    IF dmg[1] = "cut" THEN SubSeq(packet, 1, dmg[2])
    ELSE IF dmg[1] = "longer" THEN packet \o <<170, 85, 0>>
    ELSE IF dmg[1] = "type" THEN [packet EXCEPT ![1] = dmg[2]]
    ELSE IF dmg[1] = "version" THEN [packet EXCEPT ![2] = dmg[2]]
    ELSE packet

ParseCmd ==
    \E client_id \in ClientIds, cmd_seq \in U32s, cmd \in CmdChoices :
    \E packet \in {pack_cmd_bytes(client_id, cmd[1], cmd_seq, cmd[2], cmd[3])} :
    \E dmg \in Damages(packet) :
    \E expected \in (IF dmg[1] = "client" THEN ClientIds \ {client_id}
                      ELSE {client_id}) :
    LET m == [ok |-> TRUE, cmd_id |-> cmd[1], cmd_seq |-> cmd_seq,
              identify_ms |-> cmd[2], server_time_us |-> cmd[3]]
        data == Damaged(packet, dmg)
    IN  /\ last_op' = [op |-> "parse_cmd", m |-> m, damage |-> dmg[1],
                       full |-> Len(packet), data |-> data,
                       expected |-> expected,
                       parsed |-> parse_cmd_bytes(data, expected)]
        /\ wire_out' = <<>>
        /\ UNCHANGED <<now_ms, now_us, wifi_connected, node_vars, frames_built,
                       removed, last_data, net_vars>>

NextParse ==
    \/ ParseCmd

SpecParse == Init /\ [][NextParse]_vars

(***************************************************************************)
(* The functions of reliability.h on their own, applied to inputs around   *)
(* their edges.                                                            *)
(***************************************************************************)
Times32 ==
    {<<hi, lo>> : hi \in {0, Half \div 2 - 1, Half \div 2, Half - 1},
                  lo \in {0, 1, Half - 1}}

(* Distances below 2^31. *)
Distances == {<<hi, lo>> : hi \in {0, Half \div 2 - 1}, lo \in {0, 1, Half - 1}}

(* retry_due polled twice at an instant dist before or after retry_at. *)
RetryDue ==
    \E retry_at \in Times32, dist \in Distances, dir \in {"before", "after"} :
    \E now \in {IF dir = "before" THEN U32Sub(retry_at, dist)
                 ELSE U32Add(retry_at, dist)} :
        /\ last_op' = [op |-> "retry_due", now |-> now, retry_at |-> retry_at,
                       dist |-> dist, dir |-> dir,
                       due |-> retry_due(now, retry_at),
                       again |-> retry_due(now, retry_at)]
        /\ wire_out' = <<>>
        /\ UNCHANGED <<now_ms, now_us, wifi_connected, node_vars, frames_built,
                       removed, last_data, net_vars>>

FailureCounts == {0, 1, 2, 3, 4, 5, 6, 7, 20, 255}

Randoms == {0, 1, 2, 999, 1999, 7500, 14999, 15000, 2147483647}

RetryPolicies ==
    {<<kWifiRetryIntervalMs, kWifiRetryIntervalMaxMs>>, <<3, 2>>, <<1, 3>>}

RetryDelay ==
    \E policy \in RetryPolicies, failure_count \in FailureCounts,
       random_value \in Randoms :
        /\ last_op' = [op |-> "retry_delay", base_ms |-> policy[1],
                       max_ms |-> policy[2], failure_count |-> failure_count,
                       random_value |-> random_value,
                       delay |-> compute_retry_delay_ms(policy[1], policy[2],
                                                        failure_count,
                                                        random_value)]
        /\ wire_out' = <<>>
        /\ UNCHANGED <<now_ms, now_us, wifi_connected, node_vars, frames_built,
                       removed, last_data, net_vars>>

ConfiguredSamples == {0, 1, 240, 241, 242, 247, 248, 500, 65535}

Datagrams == {<<1500, 18>>, <<1472, 22>>, <<24, 18>>, <<23, 18>>, <<18, 18>>, <<10, 18>>}

ClampFrameSamples ==
    \E configured \in ConfiguredSamples, dg \in Datagrams :
        /\ last_op' = [op |-> "clamp", configured |-> configured,
                       datagram_cap |-> dg[1], header_bytes |-> dg[2],
                       result |-> clamp_frame_samples(configured, dg[1], dg[2])]
        /\ wire_out' = <<>>
        /\ UNCHANGED <<now_ms, now_us, wifi_connected, node_vars, frames_built,
                       removed, last_data, net_vars>>

NextPolicy ==
    \/ RetryDue
    \/ RetryDelay
    \/ ClampFrameSamples

SpecPolicy == Init /\ [][NextPolicy]_vars

(***************************************************************************)
(* Failure after failure: the increment and the delay of service_wifi,     *)
(* as often as MaxFailures times in a row.  g_wifi_reconnect_attempts      *)
(* counts the failures.                                                    *)
(***************************************************************************)
RepeatedFailure ==
    \E random_value \in {0, 14999, g_wifi_reconnect_attempts} :
    \E failures \in {saturating_inc_u8(g_wifi_retry_failures)} :
        /\ g_wifi_reconnect_attempts < MaxFailures
        /\ g_wifi_reconnect_attempts' = g_wifi_reconnect_attempts + 1
        /\ g_wifi_retry_failures' = failures
        /\ last_op' = [op |-> "failure", random_value |-> random_value,
                       delay |-> compute_retry_delay_ms(kWifiRetryIntervalMs,
                                                        kWifiRetryIntervalMaxMs,
                                                        failures, random_value)]
        /\ wire_out' = <<>>
        /\ UNCHANGED <<now_ms, now_us, wifi_connected, queue_vars,
                       g_build_count, g_next_seq, g_queue_overflow_drops,
                       g_tx_pack_failures, g_data_ack_parse_errors, build_vars,
                       sched_vars, ctl_vars, g_last_hello_ms, now_base,
                       g_wifi_next_retry_ms, link_hist, sensor_vars,
                       frames_built, removed, last_data, net_vars>>

NextBackoff == RepeatedFailure

SpecBackoff == Init /\ [][NextBackoff]_vars

(***************************************************************************)
(* The sequence comparison on its own.  A frame counter that never wraps   *)
(* is the triple <<w, hi, lo>>: w times 2^32 plus the 32-bit value         *)
(* <<hi, lo>> that the node keeps of it.  Compare applies                  *)
(* seq_less_or_equal to the 32-bit values of two such counters, taken      *)
(* around 0, 2^31 and the roll-over of the 32-bit value.                   *)
(***************************************************************************)
Counters ==
    {<<w, hi, lo>> : w \in 0 .. MaxWraps,
                     hi \in {0, Half \div 2 - 1, Half \div 2, Half - 1},
                     lo \in {0, 1, Half - 1}}

(* static_cast<uint32_t>: the low 32 bits of a counter. *)
Low32(c) == <<c[2], c[3]>>

Compare ==
    \E a \in Counters, b \in Counters :
        /\ last_op' = [op |-> "compare", a |-> a, b |-> b,
                       le |-> seq_less_or_equal(Low32(a), Low32(b))]
        /\ wire_out' = <<>>
        /\ UNCHANGED <<now_ms, now_us, wifi_connected, node_vars, frames_built,
                       removed, last_data, net_vars>>

NextCompare == Compare

SpecCompare == Init /\ [][NextCompare]_vars

(***************************************************************************)
(* Properties.                                                             *)
(***************************************************************************)
(* C1: with the queue allocated, in every reachable state size <=          *)
(* capacity, head and tail are both < capacity, and                        *)
(* head = (tail + size) mod capacity.                                      *)
C1_RingInvariant ==
    g_queue_capacity > 0 =>
        /\ g_q_size <= g_queue_capacity
        /\ g_q_head < g_queue_capacity
        /\ g_q_tail < g_queue_capacity
        /\ g_q_head = (g_q_tail + g_q_size) % g_queue_capacity

(* A full queue after an eviction: the head has wrapped around and meets   *)
(* the tail in the middle of the block.                                    *)
C1_Witness ==
    /\ g_queue_capacity > 0
    /\ g_q_size = g_queue_capacity
    /\ g_q_tail > 0
    /\ g_q_head = g_q_tail
    /\ g_queue_overflow_drops > 0

C2_EnqueueStep ==
    /\ last_op'.op = "sample"
    /\ frames_built' = frames_built + 1
    /\ g_queue_capacity > 0

C2_EnqueueEffect ==
    LET N == g_queue_capacity
    IN  IF g_q_size = N
        THEN /\ g_q_size' = N
             /\ Len(QueueSeq') = N
             /\ SubSeq(QueueSeq', 1, N - 1) = Tail(QueueSeq)
             /\ QueueSeq'[N].seq = g_next_seq
             /\ removed' \ removed = {QueueSeq[1].seq}
             /\ g_queue_overflow_drops' = g_queue_overflow_drops + 1
        ELSE /\ g_q_size' = g_q_size + 1
             /\ Len(QueueSeq') = g_q_size + 1
             /\ SubSeq(QueueSeq', 1, g_q_size) = QueueSeq
             /\ QueueSeq'[g_q_size + 1].seq = g_next_seq
             /\ removed' = removed
             /\ g_queue_overflow_drops' = g_queue_overflow_drops

(* C2: enqueueing a completed frame into a full queue of capacity N leaves *)
(* size = N, removes exactly the front frame, keeps the other N - 1 frames *)
(* in order with the new frame at the back, and adds exactly 1 to the      *)
(* overflow drop counter; enqueueing into a queue that is not full removes *)
(* nothing and leaves the drop counter unchanged.                          *)
C2_Enqueue == [][C2_EnqueueStep => C2_EnqueueEffect]_vars

(* A frame was just enqueued into a full queue. *)
C2_Witness ==
    /\ last_op.op = "sample"
    /\ last_op.enq = "evict"
    /\ g_q_size = g_queue_capacity
    /\ removed # {}

(* seq <= last_seq under wrap-safe comparison, stated on the distance from *)
(* seq forward to last_seq: at most 2^31.                                  *)
Covered(seq, last_seq) ==
    LET d == U32Sub(last_seq, seq)
    IN  d[1] < Half \div 2 \/ d = <<Half \div 2, 0>>

(* The length of the maximal front-aligned prefix covered by last_seq. *)
CoveredPrefix(last_seq) ==
    CHOOSE n \in 0 .. g_q_size :
        /\ \A i \in 1 .. n : Covered(QueueSeq[i].seq, last_seq)
        /\ n < g_q_size => ~Covered(QueueSeq[n + 1].seq, last_seq)

(* C3: ack_data_frames(last_seq) removes exactly the maximal front-aligned *)
(* prefix of queued frames whose sequence is <= last_seq under wrap-safe   *)
(* comparison; every frame behind the first uncovered one stays, unchanged *)
(* and in order, even if last_seq covers it.                               *)
C3_MaximalPrefix ==
    \A L \in AckValues :
        LET r == ack_data_frames(CurQ, L)
        IN  /\ FramesOf(r) = SubSeq(QueueSeq, CoveredPrefix(L) + 1, g_q_size)
            /\ r.queue = g_queue

(* An acknowledgment was applied that covers the second frame but not the  *)
(* front frame: nothing was removed.                                       *)
C3_Witness ==
    /\ last_op.op \in {"data_rx", "control_rx"}
    /\ last_op.acks # {}
    /\ last_op.trimmed = {}
    /\ g_q_size >= 2
    /\ \A L \in last_op.acks :
          ~Covered(QueueSeq[1].seq, L) /\ Covered(QueueSeq[2].seq, L)

(* a < b as unsigned 32-bit numbers *)
NumLess(a, b) == a[1] < b[1] \/ (a[1] = b[1] /\ a[2] < b[2])

(* x is one of the 2^31 sequence numbers that precede g_next_seq. *)
InWindow(x) == U32Sub(U32Sub(g_next_seq, U32(1)), x)[1] < Half \div 2

(* C4 as stated: after ack_data_frames(L), ack_data_frames with the same   *)
(* value or with any smaller value (smaller as a number and under the      *)
(* wrap-safe comparison) changes no queue field.                           *)
C4_AnySmaller ==
    \A L \in AckValues, L2 \in AckValues :
        (L2 = L \/ (NumLess(L2, L) /\ Covered(L2, L))) =>
            ack_data_frames(ack_data_frames(CurQ, L), L2) = ack_data_frames(CurQ, L)

(* C4, amended: after ack_data_frames(L), ack_data_frames with the same    *)
(* value changes no queue field, and neither does a value that is smaller  *)
(* under the wrap-safe comparison when both values are among the 2^31      *)
(* sequence numbers that precede g_next_seq.                               *)
C4_Idempotent ==
    \A L \in AckValues, L2 \in AckValues :
        (L2 = L \/ (InWindow(L) /\ InWindow(L2) /\ Covered(L2, L))) =>
            ack_data_frames(ack_data_frames(CurQ, L), L2) = ack_data_frames(CurQ, L)

(* An acknowledgment for a frame that an earlier acknowledgment had        *)
(* already removed was applied to a queue that still holds frames.         *)
C4_Witness ==
    /\ last_op.op \in {"data_rx", "control_rx"}
    /\ last_op.acks # {}
    /\ \A L \in last_op.acks : L \in removed /\ InWindow(L)
    /\ last_op.trimmed = {}
    /\ g_queue_overflow_drops = 0
    /\ g_q_size > 0

(* C5: once a frame has been removed from the queue, no Data datagram with *)
(* its sequence number is transmitted again.                               *)
C5_NoResendOfRemoved ==
    \A i \in 1 .. Len(wire_out) : wire_out[i].seq \notin removed

(* A Data datagram was sent after acknowledgments had removed frames. *)
C5_Witness ==
    /\ last_op.op = "tx"
    /\ wire_out # <<>>
    /\ removed # {}
    /\ g_queue_overflow_drops = 0

InboundOps == {"data_rx", "control_rx"}

C6_SentIsFront ==
    wire_out # <<>> =>
        /\ g_q_size > 0
        /\ \A i \in 1 .. Len(wire_out) : wire_out[i].seq = QueueSeq[1].seq

C6_OnlyFrontTransmitted ==
    \A i \in 2 .. g_q_size : ~QueueSeq[i].transmitted

C6_NonDecreasing ==
    \A i \in 1 .. Len(wire_out') :
        /\ last_data # <<>> => Covered(last_data.seq, wire_out'[i].seq)
        /\ \A j \in 1 .. i : Covered(wire_out'[j].seq, wire_out'[i].seq)

(* C6: service_tx only ever sends the frame at the front of the queue, so  *)
(* every queued frame that is not at the front has transmitted = FALSE,    *)
(* and the sequence numbers of successive Data datagrams are               *)
(* non-decreasing under wrap-safe comparison.                              *)
C6_FrontOnly ==
    /\ [](C6_SentIsFront /\ C6_OnlyFrontTransmitted)
    /\ [][C6_NonDecreasing]_vars

(* The front frame was sent once more while a newer frame waits behind it. *)
C6_Witness ==
    /\ last_op.op = "tx"
    /\ last_op.ev # <<>>
    /\ last_op.ev[1] = "resent"
    /\ g_q_size >= 2
    /\ QueueSeq[1].transmitted
    /\ ~QueueSeq[2].transmitted

C7_RemovalCause ==
    \A s \in removed' \ removed :
        \/ /\ last_op'.op \in InboundOps
           /\ \E L \in last_op'.acks : Covered(s, L)
        \/ /\ last_op'.op = "sample"
           /\ frames_built' = frames_built + 1
           /\ g_q_size = g_queue_capacity
           /\ s = QueueSeq[1].seq

C7_FramesFit ==
    /\ g_tx_pack_failures = 0
    /\ \A i \in 1 .. g_q_size :
          /\ QueueSeq[i].sample_count <= kFrameSamplesMaxByDatagram
          /\ kDataHeaderBytes + 6 * QueueSeq[i].sample_count <= kMaxDatagramBytes

(* C7: every removal of a frame is either a trim by a DataAck that covers  *)
(* its sequence number or the eviction of the front frame by an enqueue    *)
(* into a full queue; the encode-failure drop of service_tx never fires,   *)
(* because the sample_count of every queued frame fits the datagram.       *)
C7_RemovalOnlyByAckOrEviction ==
    /\ []C7_FramesFit
    /\ [][C7_RemovalCause]_vars

(* An acknowledgment trimmed a frame in a run that also saw an eviction    *)
(* and a successful send.                                                  *)
C7_Witness ==
    /\ last_op.op \in InboundOps
    /\ last_op.trimmed # {}
    /\ g_queue_overflow_drops > 0
    /\ last_data # <<>>
    /\ g_tx_pack_failures = 0

C8_Step ==
    /\ \A i \in 1 .. Len(wire_out') :
          (last_data # <<>> /\ last_data.seq = wire_out'[i].seq) =>
              now_ms - last_data.at >= 120
    /\ (/\ last_op'.op = "tx"
        /\ g_q_size > 0
        /\ QueueSeq[1].transmitted
        /\ now_ms - QueueSeq[1].last_tx_ms < 120) =>
           (wire_out' = <<>> /\ UNCHANGED queue_vars)

(* C8: a frame that has been sent is not sent again until at least         *)
(* kDataRetransmitIntervalMs (120 ms) after its last send; when the front  *)
(* frame has been sent and the interval has not elapsed, service_tx sends  *)
(* nothing and leaves the queue as it is.                                  *)
C8_RetransmitPacing == [][C8_Step]_vars

(* The front frame was sent again exactly 120 ms after its first send. *)
C8_Witness ==
    /\ last_op.op = "tx"
    /\ last_op.ev # <<>>
    /\ last_op.ev[1] = "resent"
    /\ now_ms = 120
    /\ QueueSeq[1].last_tx_ms = 120

SendFailed(op) ==
    /\ op.op = "tx"
    /\ op.ev # <<>>
    /\ op.ev[Len(op.ev)] \in {"begin_fail", "end_fail"}

C9_Step ==
    /\ (last_op'.op = "tx" /\ ~wifi_connected) =>
          /\ wire_out' = <<>>
          /\ UNCHANGED <<queue_vars, g_tx_pack_failures>>
    /\ SendFailed(last_op') =>
          /\ wire_out' = <<>>
          /\ g_q_size > 0
          /\ UNCHANGED queue_vars

C9_Retry ==
    SendFailed(last_op) =>
        LET r == service_tx(TRUE, now_ms, [i \in 0 .. kMaxTxFramesPerLoop - 1 |-> "ok"])
            front == QueueSeq[1]
        IN  /\ g_q_size > 0
            /\ IF front.transmitted /\ now_ms - front.last_tx_ms < 120
               THEN r.out = <<>>
               ELSE r.out # <<>> /\ r.out[1].seq = front.seq

(* C9: when service_tx does not complete a send the queue is untouched:    *)
(* with the link down it sends nothing and changes no frame; when          *)
(* beginPacket or endPacket fails it stops, the frame stays at the front   *)
(* with transmitted and last_tx_ms unchanged, and the next service_tx      *)
(* attempts the same frame as soon as the retransmit pacing allows.        *)
C9_FailedSendKeepsFrame ==
    /\ []C9_Retry
    /\ [][C9_Step]_vars

(* The retransmission of the front frame failed in endPacket: the frame is *)
(* still at the front with the time of its earlier send.                   *)
C9_Witness ==
    /\ last_op.op = "tx"
    /\ last_op.ev = <<"end_fail">>
    /\ g_q_size > 0
    /\ QueueSeq[1].transmitted
    /\ QueueSeq[1].last_tx_ms < now_ms

C10_EventuallyRemoved ==
    \A k \in 0 .. MaxFrames - 1 :
        (U32(k) \in SeqsOf(QueueSeq)) ~> (U32(k) \in removed)

C10_AckedAfterTransmit ==
    last_op'.op = "data_rx" =>
        \A i \in 1 .. g_q_size :
            QueueSeq[i].seq \in last_op'.trimmed => QueueSeq[i].transmitted

C10_RetransmittedUntilRemoved ==
    (g_q_size > 0 /\ QueueSeq[1].transmitted /\ wire_out = <<>>)
        ~> (\/ wire_out # <<>>
            \/ g_q_size = 0
            \/ ~QueueSeq[1].transmitted)

(* C10: under the fairness of SpecLive (the link comes up and stays up,    *)
(* sends succeed, a datagram sent again and again is eventually received,  *)
(* the collector acknowledges what it received and an acknowledgment sent  *)
(* again and again is eventually delivered) every enqueued frame is        *)
(* eventually removed, by an acknowledgment only after it was transmitted, *)
(* or else by eviction; and while a transmitted frame stays at the front,  *)
(* unacknowledged, a Data datagram is sent again, however often datagrams  *)
(* and acknowledgments are lost (by C6 that datagram is the front frame).  *)
C10_AtLeastOnceDelivery ==
    /\ C10_EventuallyRemoved
    /\ [][C10_AckedAfterTransmit]_vars
    /\ C10_RetransmittedUntilRemoved

(* An acknowledgment removed a frame of which a retransmitted copy is      *)
(* still in flight.                                                        *)
C10_Witness ==
    /\ last_op.op = "data_rx"
    /\ \E s \in last_op.trimmed : s \in net_data

(* The difference b - a of two counters is DiffHi * 2^16 + DiffLo with     *)
(* 0 <= DiffLo < 2^16.                                                     *)
DiffHi(a, b) ==
    (b[1] - a[1]) * Half + (b[2] - a[2]) - (IF b[3] < a[3] THEN 1 ELSE 0)
DiffLo(a, b) == (b[3] - a[3]) % Half

(* a <= b as counters. *)
CounterLe(a, b) == DiffHi(a, b) >= 0
(* |b - a| < 2^31 *)
LessThanHalfApart(a, b) ==
    /\ DiffHi(a, b) < Half \div 2
    /\ DiffHi(a, b) >= -(Half \div 2)
    /\ ~(DiffHi(a, b) = -(Half \div 2) /\ DiffLo(a, b) = 0)
(* |b - a| = 2^31 *)
ExactlyHalfApart(a, b) ==
    /\ DiffHi(a, b) \in {Half \div 2, -(Half \div 2)}
    /\ DiffLo(a, b) = 0

(* C11 as stated, "within 2^31" read as |b - a| <= 2^31: the comparison    *)
(* agrees with the order of the counters.  It does not when a is exactly   *)
(* 2^31 ahead of b.                                                        *)
C11_WithinHalfInclusive ==
    (last_op.op = "compare"
        /\ (LessThanHalfApart(last_op.a, last_op.b)
               \/ ExactlyHalfApart(last_op.a, last_op.b)))
    => (last_op.le <=> CounterLe(last_op.a, last_op.b))

(* C11 (amended): seq_less_or_equal on the 32-bit values agrees with the   *)
(* order of the counters whenever they are less than 2^31 apart, across    *)
(* the roll-over too (0xFFFFFFFF before 0 is true, 0 before 0xFFFFFFFF is  *)
(* false); at exactly 2^31 apart it answers true whichever is ahead.       *)
C11_WrapSafeOrder ==
    last_op.op = "compare" =>
        /\ LessThanHalfApart(last_op.a, last_op.b)
              => (last_op.le <=> CounterLe(last_op.a, last_op.b))
        /\ ExactlyHalfApart(last_op.a, last_op.b) => last_op.le
        /\ (last_op.a = <<0, Half - 1, Half - 1>> /\ last_op.b = <<1, 0, 0>>)
              => last_op.le
        /\ (last_op.a = <<1, 0, 0>> /\ last_op.b = <<0, Half - 1, Half - 1>>)
              => ~last_op.le

(* 0xFFFFFFFF compared with the 0 that follows it. *)
C11_Witness ==
    /\ last_op.op = "compare"
    /\ last_op.a = <<0, Half - 1, Half - 1>>
    /\ last_op.b = <<1, 0, 0>>
    /\ last_op.le

(* C12: sequence numbers start at 0 and grow by one per frame put into the *)
(* queue, whatever was acknowledged or evicted in between: the next        *)
(* sequence number is the number of frames inserted so far, the queued     *)
(* frames carry the consecutive numbers just below it, and once ten frames *)
(* were inserted and a DataAck for 9 was applied the queue is empty and    *)
(* the next number is 10.  (With no queue allocated no frame is inserted   *)
(* and the number stays 0.)                                                *)
C12_SequenceNumbering ==
    /\ g_queue_capacity = 0 => g_next_seq = <<0, 0>>
    /\ g_queue_capacity > 0 =>
          /\ g_next_seq = <<0, frames_built>>
          /\ \A i \in 1 .. g_q_size :
                 QueueSeq[i].seq = <<0, frames_built - g_q_size + i - 1>>
          /\ (frames_built = 10
                /\ last_op.op = "data_rx"
                /\ <<0, 9>> \in last_op.acks)
                => (g_q_size = 0 /\ g_next_seq = <<0, 10>>)

(* The eleventh frame, alone in the queue after evictions and the          *)
(* acknowledgment of frame 9.                                              *)
C12_Witness ==
    /\ g_queue_capacity > 0
    /\ frames_built = 11
    /\ g_queue_overflow_drops > 0
    /\ <<0, 9>> \in removed
    /\ g_q_size = 1
    /\ QueueSeq[1].seq = <<0, 10>>

(* C13: one call of service_sampling takes at most                         *)
(* kMaxCatchUpSamplesPerLoop samples and moves the due time one step per   *)
(* sample taken plus a whole number of skipped steps; steps are skipped    *)
(* exactly when the time last read had reached the due time after the      *)
(* catch-up loop; on return the due time is later than the time last read  *)
(* and at most one step ahead of it.                                       *)
C13_Step ==
    last_op'.op = "sampling" =>
        /\ last_op'.taken <= kMaxCatchUpSamplesPerLoop
        /\ frames_built' * kFrameSamples + g_build_count'
              = frames_built * kFrameSamples + g_build_count + last_op'.taken
        /\ g_next_sample_due_us'
              = g_next_sample_due_us + (last_op'.taken + last_op'.skipped) * step_us
        /\ last_op'.skipped > 0
              <=> now_us' >= g_next_sample_due_us + last_op'.taken * step_us
        /\ g_next_sample_due_us' > now_us'
        /\ g_next_sample_due_us' - now_us' <= step_us

C13_BoundedCatchUp == [][C13_Step]_vars

(* A call that took all eight catch-up samples and still had to skip. *)
C13_Witness ==
    /\ last_op.op = "sampling"
    /\ last_op.taken = kMaxCatchUpSamplesPerLoop
    /\ last_op.skipped > 1

(* The frames a sampling step completed, by its samples. *)
CompletedBy(taken) == (g_build_count + taken) \div kFrameSamples

C14_Step ==
    last_op'.op = "sampling" =>
        /\ g_build_count' = (g_build_count + last_op'.taken) % kFrameSamples
        /\ g_queue_capacity > 0 =>
              g_next_seq' = U32Add(g_next_seq, U32(CompletedBy(last_op'.taken)))
        /\ g_queue_capacity = 0 =>
              g_queue_overflow_drops'
                = g_queue_overflow_drops + CompletedBy(last_op'.taken)
        /\ \A i \in 1 .. g_q_size' :
              QueueSeq'[i].seq \notin SeqsOf(QueueSeq) =>
                  /\ QueueSeq'[i].sample_count = kFrameSamples
                  /\ QueueSeq'[i].t0_us
                        = QueueSeq'[i].xyz[0].due + g_clock_offset_us

C14_Periodic ==
    /\ g_build_count < kFrameSamples
    /\ g_sampling_missed_samples = 0 =>
          \A i \in 1 .. g_q_size :
              \A k \in 0 .. kFrameSamples - 1 :
                  QueueSeq[i].xyz[k].due
                    = (QueueSeq[i].seq[2] * kFrameSamples + k) * step_us

(* C14: a frame is handed to the queue exactly when the build buffer       *)
(* reaches kFrameSamples samples, one frame per kFrameSamples samples      *)
(* taken, so every kFrameSamples steps of due time while no sample is      *)
(* missed; its t0_us is the due time at which its first sample was taken   *)
(* plus the clock offset at the moment it is enqueued.                     *)
C14_FrameFinalization == []C14_Periodic /\ [][C14_Step]_vars

(* A frame stamped after a clock synchronisation, whose first sample was   *)
(* taken more than a step before its second.                               *)
C14_Witness ==
    /\ last_op.op = "sampling"
    /\ g_clock_offset_us # 0
    /\ g_q_size > 0
    /\ QueueSeq[g_q_size].t0_us = QueueSeq[g_q_size].xyz[0].due + g_clock_offset_us
    /\ QueueSeq[g_q_size].xyz[1].due > QueueSeq[g_q_size].xyz[0].due + step_us

C15_OnlySensorValues ==
    /\ \A k \in 0 .. g_build_count - 1 : g_build_xyz[k].src = SensorSample
    /\ \A i \in 1 .. g_q_size :
          \A k \in 0 .. QueueSeq[i].sample_count - 1 :
              QueueSeq[i].xyz[k].src = SensorSample

C15_Step ==
    last_op'.op = "sampling" =>
        /\ g_sampling_missed_samples'
              = g_sampling_missed_samples + last_op'.skipped
                  + (IF last_op'.starved THEN 1 ELSE 0)
        /\ last_op'.starved => last_op'.skipped > 0
        /\ (last_op'.starved /\ last_op'.taken = 0) =>
              /\ g_build_count' = g_build_count
              /\ g_build_xyz' = g_build_xyz
              /\ g_build_t0_us' = g_build_t0_us
              /\ UNCHANGED <<queue_vars, g_next_seq, g_queue_overflow_drops>>

(* C15: with the synthetic fallback disabled every sample in the build     *)
(* buffer and in every queued frame is a value read from the sensor; a     *)
(* call of service_sampling in which the sensor yields no sample stores    *)
(* nothing for it and counts it in g_sampling_missed_samples.              *)
C15_NoFabricatedSamples == []C15_OnlySensorValues /\ [][C15_Step]_vars

(* The sensor had nothing for the second sample of a frame. *)
C15_Witness ==
    /\ last_op.op = "sampling"
    /\ last_op.starved
    /\ last_op.taken = 0
    /\ g_build_count > 0
    /\ g_sampling_missed_samples > 0

(* The sensor had no data for a due sample while a frame was being built. *)
C16_MissWhileBuilding ==
    /\ last_op'.op = "sampling"
    /\ last_op'.starved
    /\ (g_build_count + last_op'.taken) % kFrameSamples # 0

C16_Step ==
    C16_MissWhileBuilding =>
        /\ g_build_count' = 0
        /\ g_queue_capacity > 0 =>
              /\ g_q_size' > 0
              /\ QueueSeq'[g_q_size'].seq \notin SeqsOf(QueueSeq)
              /\ QueueSeq'[g_q_size'].sample_count < kFrameSamples

(* C16: when the sensor reports no data for a due sample, the frame being  *)
(* built is finalized and enqueued with fewer than kFrameSamples samples.  *)
C16_ShortFrameOnMiss == [][C16_Step]_vars

(* After a miss the partial frame is still in the build buffer and every   *)
(* queued frame is full.                                                   *)
C16_Witness ==
    /\ last_op.op = "sampling"
    /\ last_op.starved
    /\ g_build_count > 0
    /\ g_build_count < kFrameSamples
    /\ g_q_size > 0
    /\ \A i \in 1 .. g_q_size : QueueSeq[i].sample_count = kFrameSamples

(***************************************************************************)
(* C17..C20: the control plane (SpecControl).                              *)
(***************************************************************************)
(* The step just taken was service_control_rx() on a datagram that          *)
(* parse_cmd accepts.                                                      *)
ParsedCmdStep ==
    /\ last_op'.op = "control_rx"
    /\ last_op'.rx.len > 0
    /\ last_op'.rx.msg_type = kMsgCmd
    /\ parse_cmd(last_op'.rx, g_client_id)

AckFor(d, status) ==
    [msg_type |-> kMsgAck, proto_version |-> kProtoVersion,
     client_id |-> g_client_id, cmd_seq |-> d.cmd_seq, status |-> status]

StatusFor(d) == IF d.cmd_id \in {kCmdIdentify, kCmdSyncClock} THEN 0 ELSE 2

ClampedIdentifyMs(d) ==
    IF d.identify_ms > kMaxIdentifyDurationMs
    THEN kMaxIdentifyDurationMs
    ELSE d.identify_ms

C17_Step ==
    /\ ParsedCmdStep =>
          LET d == last_op'.rx
              sent == last_op'.ack_out
          IN  /\ last_op'.ack_calls = 1
              /\ \/ sent = <<AckFor(d, StatusFor(d))>> /\ last_op'.err = <<>>
                 \/ sent = <<>> /\ last_op'.err = <<8>>
              /\ UNCHANGED <<now_ms, now_us, wifi_connected, queue_vars, g_build_count,
                             svc_vars, sensor_vars, g_next_seq, g_queue_overflow_drops, g_tx_pack_failures,
                             g_data_ack_parse_errors, build_vars, sched_vars,
                             g_control_parse_errors, g_identify_leds_active,
                             frames_built, removed, last_data, net_vars>>
              /\ d.cmd_id = kCmdIdentify =>
                    /\ g_blink_until_ms' = now_ms + ClampedIdentifyMs(d)
                    /\ g_blink_until_ms' - now_ms <= kMaxIdentifyDurationMs
                    /\ g_led_next_update_ms' = 0
                    /\ UNCHANGED g_clock_offset_us
              /\ d.cmd_id = kCmdSyncClock =>
                    /\ g_clock_offset_us' = d.server_time_us - now_us
                    /\ UNCHANGED <<g_blink_until_ms, g_led_next_update_ms>>
              /\ d.cmd_id \notin {kCmdIdentify, kCmdSyncClock} =>
                    UNCHANGED ctl_vars
    /\ (last_op'.op = "blink" /\ g_blink_until_ms # 0 /\ now_ms >= g_blink_until_ms) =>
          g_blink_until_ms' = 0 /\ ~g_identify_leds_active'

C17_DeadlineBounded ==
    /\ g_blink_until_ms <= now_ms + kMaxIdentifyDurationMs
    /\ g_identify_leds_active => g_blink_until_ms # 0

(* C17: every Cmd datagram that parse_cmd accepts makes                    *)
(* service_control_rx() call send_ack() exactly once with the command's    *)
(* cmd_seq, status 0 for Identify and SyncClock and 2 for any other        *)
(* cmd_id; that one Ack leaves the node when the transport takes it and    *)
(* none leaves (error 8) when endPacket() fails.  Identify sets the        *)
(* indicator deadline to now + min(identify_ms, kMaxIdentifyDurationMs),   *)
(* the deadline is never further away than kMaxIdentifyDurationMs and      *)
(* service_blink() clears it once reached; SyncClock sets ClockOffset to   *)
(* server_time_us minus esp_timer_get_time(); any other cmd_id changes no  *)
(* other state.                                                            *)
C17_CmdAcknowledged == []C17_DeadlineBounded /\ [][C17_Step]_vars

C17_Witness ==
    /\ last_op.op = "control_rx"
    /\ last_op.rx.msg_type = kMsgCmd
    /\ last_op.rx.cmd_id \notin {kCmdIdentify, kCmdSyncClock}
    /\ parse_cmd(last_op.rx, g_client_id)
    /\ last_op.ack_out = <<AckFor(last_op.rx, 2)>>
    /\ g_blink_until_ms = kMaxIdentifyDurationMs
    /\ g_clock_offset_us # 0

(* The step just taken was service_control_rx() on a SyncClock that        *)
(* parse_cmd accepts.                                                      *)
SyncClockStep == ParsedCmdStep /\ last_op'.rx.cmd_id = kCmdSyncClock

(* ClockOffset moves in SyncClock steps only, whatever became of the Ack. *)
C18_OnlySyncClock ==
    [][g_clock_offset_us' # g_clock_offset_us => SyncClockStep]_vars

C18_Step ==
    g_clock_offset_us' # g_clock_offset_us =>
        SyncClockStep /\ last_op'.ack_out # <<>>

(* C18: ClockOffset changes only in a service_control_rx() step on a       *)
(* SyncClock command whose Ack left the node; a SyncClock whose Ack was    *)
(* not sent leaves it as it was.                                           *)
C18_OnlyAcknowledgedSync == [][C18_Step]_vars

C18_Witness ==
    /\ last_op.op = "control_rx"
    /\ last_op.rx.msg_type = kMsgCmd
    /\ last_op.rx.cmd_id = kCmdSyncClock
    /\ last_op.ack_out = <<>>
    /\ last_op.err = <<8>>
    /\ g_clock_offset_us = last_op.rx.server_time_us - now_us
    /\ g_clock_offset_us # 0

(* The datagram reached parse_cmd and its identity, type or version is     *)
(* not the expected one.                                                   *)
Misaddressed(d) ==
    /\ d.len > 0
    /\ d.msg_type # kMsgDataAck
    /\ \/ d.client_id # g_client_id
       \/ d.msg_type # kMsgCmd
       \/ d.proto_version # kProtoVersion

C19_Step ==
    (last_op'.op = "control_rx" /\ Misaddressed(last_op'.rx)) =>
        /\ last_op'.ack_calls = 0
        /\ last_op'.ack_out = <<>>
        /\ last_op'.err = <<9>>
        /\ g_control_parse_errors' = g_control_parse_errors + 1
        /\ UNCHANGED <<g_clock_offset_us, g_blink_until_ms, g_led_next_update_ms,
                       g_identify_leds_active, queue_vars, g_build_count,
                       g_next_seq, g_queue_overflow_drops, build_vars, removed>>

(* C19: a datagram handed to parse_cmd whose client_id is not the node's,  *)
(* or whose msg_type or proto_version is not the expected one, is          *)
(* rejected: send_ack() is not called and no Ack leaves, and ClockOffset,  *)
(* the identify deadline and the frame queue stay as they were; only       *)
(* g_control_parse_errors grows.                                           *)
C19_MisaddressedRejected == [][C19_Step]_vars

C19_Witness ==
    /\ last_op.op = "control_rx"
    /\ last_op.rx.msg_type = kMsgCmd
    /\ last_op.rx.proto_version = kProtoVersion
    /\ last_op.rx.client_id # g_client_id
    /\ last_op.ack_out = <<>>
    /\ g_control_parse_errors = 1
    /\ g_q_size > 0
    /\ g_clock_offset_us # 0
    /\ g_blink_until_ms # 0

(* A datagram with at least one byte that the channel's parser rejects. *)
MalformedOnData(d) ==
    /\ d.len > 0
    /\ ~(d.msg_type = kMsgDataAck /\ parse_data_ack(d, g_client_id))

MalformedOnControl(d) ==
    /\ d.len > 0
    /\ ~(d.msg_type = kMsgDataAck /\ parse_data_ack(d, g_client_id))
    /\ ~(d.msg_type = kMsgCmd /\ parse_cmd(d, g_client_id))

MalformedStep ==
    \/ last_op'.op = "data_rx" /\ MalformedOnData(last_op'.rx)
    \/ last_op'.op = "control_rx" /\ MalformedOnControl(last_op'.rx)

(* A malformed datagram changes neither the frame queue nor ClockOffset. *)
C20_Discarded ==
    [][MalformedStep => UNCHANGED <<queue_vars, g_clock_offset_us, removed>>]_vars

C20_Step ==
    MalformedStep =>
        /\ g_data_ack_parse_errors' + g_control_parse_errors'
              = g_data_ack_parse_errors + g_control_parse_errors + 1
        /\ UNCHANGED <<queue_vars, g_clock_offset_us>>

(* C20: every datagram on the data channel or the control channel that     *)
(* fails to parse increments a parse-error counter and changes neither     *)
(* the frame queue nor ClockOffset.                                        *)
C20_MalformedCounted == [][C20_Step]_vars

C20_Witness ==
    /\ last_op.op = "data_rx"
    /\ last_op.rx.len > 0
    /\ last_op.rx.msg_type # kMsgDataAck
    /\ g_data_ack_parse_errors = 0
    /\ g_control_parse_errors = 0
    /\ g_q_size > 0

(***************************************************************************)
(* C21  Periodic Hello.                                                    *)
(***************************************************************************)
(* A call of service_hello() calls send_hello exactly when at least        *)
(* kHelloIntervalMs have passed since g_last_hello_ms, and then sets       *)
(* g_last_hello_ms to the current time; a Hello that leaves the node       *)
(* carries the current drop counter.                                       *)
C21_Step ==
    last_op'.op = "hello" =>
        LET due == now_ms - g_last_hello_ms >= kHelloIntervalMs
        IN  /\ last_op'.hello_calls = (IF due THEN 1 ELSE 0)
            /\ g_last_hello_ms' = (IF due THEN now_ms ELSE g_last_hello_ms)
            /\ Len(last_op'.hello_out) <= last_op'.hello_calls
            /\ last_op'.err = <<>> => Len(last_op'.hello_out) = last_op'.hello_calls
            /\ \A i \in 1 .. Len(last_op'.hello_out) :
                   LET m == parse_hello(last_op'.hello_out[i])
                   IN  /\ m.msg_type = kMsgHello
                       /\ m.queue_overflow_drops = U32(g_queue_overflow_drops)

(* g_last_hello_ms is the time of the latest periodic Hello: no other step *)
(* changes it.                                                             *)
C21_Stamp ==
    g_last_hello_ms' # g_last_hello_ms =>
        last_op'.op = "hello" /\ last_op'.hello_calls = 1

(* The drop counter is the number of frames dropped for capacity: every    *)
(* frame built is either still queued or was dropped (none is              *)
(* acknowledged here), and the counter never decreases.                    *)
C21_DropsCounted == g_queue_overflow_drops = frames_built - g_q_size

C21_DropsStep == g_queue_overflow_drops' >= g_queue_overflow_drops

(* C21: a Hello is sent in every tick in which at least kHelloIntervalMs   *)
(* (2000 ms) have elapsed since the previous periodic Hello and in no      *)
(* other tick, and the overflow counter it carries is the number of frames *)
(* dropped for capacity so far, which never decreases.                     *)
C21_PeriodicHello ==
    /\ [][C21_Step /\ C21_Stamp /\ C21_DropsStep]_vars
    /\ []C21_DropsCounted

C21_Witness ==
    /\ last_op.op = "hello"
    /\ Len(last_op.hello_out) = 1
    /\ g_queue_overflow_drops > 0
    /\ now_ms = 2 * kHelloIntervalMs
    /\ parse_hello(last_op.hello_out[1]).queue_overflow_drops
           = U32(g_queue_overflow_drops)

(***************************************************************************)
(* C22  Link retry spacing.                                                *)
(***************************************************************************)
(* What a call of service_wifi() does: with the link up it resets the      *)
(* failure count and the retry time; with the link down an attempt         *)
(* increments the failure count (saturating) and sets the retry time to    *)
(* now + compute_retry_delay_ms(...); the first call that sees the link    *)
(* down after a reset makes an attempt; no attempt changes nothing.        *)
C22_Step ==
    last_op'.op = "wifi_service" =>
        /\ wifi_connected =>
               /\ ~last_op'.attempted
               /\ g_wifi_retry_failures' = 0
               /\ g_wifi_next_retry_ms' = <<0, 0>>
        /\ (~wifi_connected /\ g_wifi_next_retry_ms = <<0, 0>>) =>
               last_op'.attempted
        /\ last_op'.attempted =>
               /\ ~wifi_connected
               /\ g_wifi_reconnect_attempts' = g_wifi_reconnect_attempts + 1
               /\ g_wifi_retry_failures' =
                      (IF g_wifi_retry_failures < 255
                       THEN g_wifi_retry_failures + 1 ELSE 255)
               /\ g_wifi_next_retry_ms' =
                      U32Add(millis,
                             U32(compute_retry_delay_ms(
                                     kWifiRetryIntervalMs,
                                     kWifiRetryIntervalMaxMs,
                                     g_wifi_retry_failures',
                                     last_op'.random_value)))
        /\ (~wifi_connected /\ ~last_op'.attempted) =>
               UNCHANGED <<g_wifi_retry_failures, g_wifi_next_retry_ms,
                           g_wifi_reconnect_attempts>>

C22_Scheduling == [][C22_Step]_vars

(* An attempt that is not the first of its outage is not made before the   *)
(* time that the attempt before it set.                                    *)
C22_NotBefore ==
    (last_op'.op = "wifi_service" /\ last_op'.attempted /\ link_hist.down) =>
        now_ms >= link_hist.sched

(* C22: while the link is down service_wifi makes no reassociation attempt *)
(* before next_attempt_at; each attempt increments the failure count       *)
(* (saturating) and schedules the next attempt at                          *)
(* now + compute_retry_delay_ms(base, cap, failures, jitter); whenever the *)
(* link is observed up, failures and next_attempt_at are reset to 0, so    *)
(* the first attempt after a new link drop is made on the first tick that  *)
(* sees the link down.                                                     *)
C22_RetrySpacing == [][C22_Step /\ C22_NotBefore]_vars

C22_Witness ==
    /\ last_op.op = "wifi_service"
    /\ last_op.attempted
    /\ last_op.before.down
    /\ now_ms < last_op.before.sched

(***************************************************************************)
(* C23  Attempts in the first 30 s of an outage.                           *)
(***************************************************************************)
(* C23: while the link has been down for at most 30 s since service_wifi   *)
(* first saw it down, the number N of reassociation attempts satisfies     *)
(* 30000/60000 <= N <= 30000/4000 + 1 (N is at least 1, the attempt made   *)
(* at once, and at most 8), whatever the jitter.                           *)
C23_AttemptsInWindow ==
    (link_hist.down /\ now_ms - link_hist.since <= 30000) =>
        /\ link_hist.attempts >= 1
        /\ link_hist.attempts >= 30000 \div kWifiRetryIntervalMaxMs
        /\ link_hist.attempts <= 30000 \div kWifiRetryIntervalMs + 1

C23_Witness ==
    /\ link_hist.down
    /\ ~wifi_connected
    /\ now_ms = link_hist.since + 30000
    /\ link_hist.attempts = 3

(***************************************************************************)
(* C24  retry_due.                                                         *)
(***************************************************************************)
(* C24: retry_due answers due whenever retry_at is 0; for a retry time     *)
(* other than 0 it answers not due at every instant less than 2^31 ms      *)
(* before that time and due from that time on (retry_due(t, t) is due,     *)
(* retry_due(t - 1, t) is not), across the wrap of the clock; polled again *)
(* at the same instant it gives the same answer.                           *)
C24_RetryDue ==
    last_op.op = "retry_due" =>
        /\ last_op.retry_at = <<0, 0>> => last_op.due
        /\ last_op.retry_at # <<0, 0>> =>
               (last_op.due <=>
                    (last_op.dir = "after" \/ last_op.dist = <<0, 0>>))
        /\ last_op.again = last_op.due

C24_Witness ==
    /\ last_op.op = "retry_due"
    /\ last_op.retry_at = <<0, 1>>
    /\ last_op.dir = "before"
    /\ last_op.dist = <<0, 1>>
    /\ last_op.now = <<0, 0>>
    /\ ~last_op.due

(***************************************************************************)
(* C25  The range of the retry delay.                                      *)
(***************************************************************************)
(* C25: with base 4000 ms and cap 60000 ms compute_retry_delay_ms is       *)
(* within [7000, 8999] at one failure and within [52500, 60000] at five    *)
(* failures and more, whatever the jitter; the result never exceeds the    *)
(* cap.                                                                    *)
C25_DelayRange ==
    last_op.op = "retry_delay" =>
        /\ last_op.delay <= last_op.max_ms
        /\ (last_op.base_ms = 4000 /\ last_op.max_ms = 60000) =>
               /\ last_op.failure_count = 1 =>
                      (last_op.delay >= 7000 /\ last_op.delay <= 8999)
               /\ last_op.failure_count >= 5 =>
                      (last_op.delay >= 52500 /\ last_op.delay <= 60000)

C25_Witness ==
    /\ last_op.op = "retry_delay"
    /\ last_op.base_ms = 4000
    /\ last_op.max_ms = 60000
    /\ last_op.failure_count = 6
    /\ last_op.random_value = 14999
    /\ last_op.delay = 60000

(***************************************************************************)
(* C26  Repeated failures.                                                 *)
(***************************************************************************)
C26_Bounded ==
    /\ g_wifi_retry_failures =
           (IF g_wifi_reconnect_attempts < 255
            THEN g_wifi_reconnect_attempts ELSE 255)
    /\ last_op.op = "failure" =>
           /\ g_wifi_reconnect_attempts >= 1
           /\ last_op.delay >= 4000
           /\ last_op.delay <= 60000
           /\ g_wifi_reconnect_attempts > 7 => last_op.delay >= 52500

C26_NoWrap == g_wifi_retry_failures' >= g_wifi_retry_failures

(* C26: after n >= 1 consecutive saturating increments from 0 the failure  *)
(* count is min(n, 255) and never goes back, the delay (base 4000, cap     *)
(* 60000, any jitter) is within [4000, 60000], and at least 52500 once     *)
(* more than 7 failures have accumulated.                                  *)
C26_RepeatedFailuresBounded == []C26_Bounded /\ [][C26_NoWrap]_vars

C26_Witness ==
    /\ last_op.op = "failure"
    /\ g_wifi_reconnect_attempts > 256
    /\ g_wifi_retry_failures = 255
    /\ last_op.delay >= 52500

(***************************************************************************)
(* C28  clamp_frame_samples.                                               *)
(***************************************************************************)
(* C28: for a datagram that holds the header, clamp_frame_samples returns  *)
(* min(configured, (datagram_cap - header_bytes) div 6) for configured > 0 *)
(* and 1 for configured = 0, never zero when one sample fits;              *)
(* (500, 1500, 18) gives 247, (0, 1500, 18) gives 1, (500, 1472, 22) gives *)
(* 241; kFrameSamples is this function applied to the configuration.       *)
C28_ClampFrameSamples ==
    /\ last_op.op = "clamp" /\ last_op.datagram_cap >= last_op.header_bytes =>
           LET fit == (last_op.datagram_cap - last_op.header_bytes) \div 6
           IN  /\ last_op.configured > 0 =>
                      last_op.result =
                          (IF last_op.configured < fit
                           THEN last_op.configured ELSE fit)
               /\ last_op.configured = 0 => last_op.result = 1
               /\ fit >= 1 => last_op.result >= 1
               /\ (last_op.configured = 500 /\ last_op.datagram_cap = 1500
                       /\ last_op.header_bytes = 18) => last_op.result = 247
               /\ (last_op.configured = 500 /\ last_op.datagram_cap = 1472
                       /\ last_op.header_bytes = 22) => last_op.result = 241
    /\ kFrameSamples = clamp_frame_samples(kConfiguredFrameSamples,
                                           kMaxDatagramBytes, kDataHeaderBytes)

C28_Witness ==
    /\ last_op.op = "clamp"
    /\ last_op.configured = 500
    /\ last_op.datagram_cap = 1500
    /\ last_op.header_bytes = 18
    /\ last_op.result = 247

(***************************************************************************)
(* C27  Sensor reinitialization.                                           *)
(***************************************************************************)
(* A reinitialization attempt is made by a read that fails, with the count *)
(* of consecutive errors (this one included) at the threshold or above and *)
(* at least the cooldown since g_last_sensor_reinit_ms, which it sets to   *)
(* the current time; when it succeeds the count is reset to 0.             *)
C27_Step ==
    g_sensor_reinit_attempts' # g_sensor_reinit_attempts =>
        /\ g_sensor_reinit_attempts' = g_sensor_reinit_attempts + 1
        /\ g_sensor_read_errors' = g_sensor_read_errors + 1
        /\ g_sensor_consecutive_errors + 1 >= kSensorReinitErrorThreshold
        /\ now_ms - g_last_sensor_reinit_ms >= kSensorReinitCooldownMs
        /\ g_last_sensor_reinit_ms' = now_ms
        /\ g_sensor_ok
        /\ IF g_sensor_ok'
           THEN /\ g_sensor_consecutive_errors' = 0
                /\ g_sensor_reinit_success' = g_sensor_reinit_success + 1
           ELSE /\ g_sensor_consecutive_errors' = g_sensor_consecutive_errors + 1
                /\ g_sensor_reinit_success' = g_sensor_reinit_success

(* g_last_sensor_reinit_ms is the time of the latest attempt, and only an  *)
(* attempt counts as a success or changes g_sensor_ok.                     *)
C27_Stamp ==
    (\/ g_last_sensor_reinit_ms' # g_last_sensor_reinit_ms
     \/ g_sensor_reinit_success' # g_sensor_reinit_success
     \/ g_sensor_ok' # g_sensor_ok) =>
        g_sensor_reinit_attempts' = g_sensor_reinit_attempts + 1

(* C27: a sensor reinitialization attempt is made only when the            *)
(* consecutive I/O error count has reached kSensorReinitErrorThreshold (3) *)
(* and at least kSensorReinitCooldownMs (5000 ms) have elapsed since the   *)
(* previous attempt, so any two attempts are at least one cooldown apart;  *)
(* a successful reinitialization resets the consecutive-error counter.     *)
C27_SensorReinit == [][C27_Step /\ C27_Stamp]_vars

C27_Witness ==
    /\ g_sensor_reinit_attempts = 2
    /\ g_sensor_reinit_success = 2
    /\ g_sensor_consecutive_errors = 0
    /\ g_sensor_ok
    /\ g_last_sensor_reinit_ms = now_ms
    /\ now_ms = 2 * kSensorReinitCooldownMs

(***************************************************************************)
(* C29  Round trip of the wire codec.                                      *)
(***************************************************************************)
PackOps == {"pack_hello", "pack_data", "pack_ack", "pack_data_ack", "pack_cmd"}

(* The message with the two strings of a Hello cut to 32 bytes. *)
Truncated(m) ==
    [m EXCEPT !.name = SubSeq(@, 1, IF Len(@) < 32 THEN Len(@) ELSE 32),
              !.firmware_version = SubSeq(@, 1, IF Len(@) < 32 THEN Len(@) ELSE 32)]

(* C29: for every kind of message (Hello, Data, Cmd, Ack, DataAck) and     *)
(* every valid message m, decode(encode(m)) = m, except that the name and  *)
(* firmware fields of a Hello longer than 32 bytes are cut to 32 bytes     *)
(* before encoding.                                                        *)
C29_RoundTrip ==
    (last_op.op \in PackOps /\ last_op.packet # <<>>) =>
        last_op.decoded =
            (IF last_op.op = "pack_hello" THEN Truncated(last_op.m)
             ELSE last_op.m)

C29_Witness ==
    /\ last_op.op = "pack_hello"
    /\ last_op.packet # <<>>
    /\ Len(last_op.m.name) = 33
    /\ Len(last_op.decoded.name) = 32
    /\ last_op.decoded.queue_overflow_drops = <<4660, 22136>>

(***************************************************************************)
(* C30  Buffers too small.                                                 *)
(***************************************************************************)
(* The exact size of the message of a pack step. *)
Need ==
    IF last_op.op = "pack_hello"
    THEN 20 + (IF Len(last_op.m.name) < 32 THEN Len(last_op.m.name) ELSE 32)
            + (IF Len(last_op.m.firmware_version) < 32
               THEN Len(last_op.m.firmware_version) ELSE 32)
    ELSE IF last_op.op = "pack_data" THEN 22 + 6 * last_op.m.sample_count
    ELSE IF last_op.op = "pack_ack" THEN 13
    ELSE 12

(* C30: every pack function returns 0 and writes nothing when the buffer   *)
(* is smaller than the exact size of the message, and returns exactly that *)
(* size otherwise; a caller that got 0 sends nothing.                      *)
C30_PackSize ==
    (last_op.op \in PackOps \ {"pack_cmd"}) =>
        /\ Len(last_op.packet) = (IF last_op.out_len < Need THEN 0 ELSE Need)
        /\ last_op.op \in {"pack_data", "pack_ack"} =>
               last_op.len = Len(last_op.packet)
        /\ last_op.op = "pack_hello" =>
               last_op.sent = (IF last_op.packet = <<>> THEN <<>>
                               ELSE <<last_op.packet>>)
        /\ (last_op.op = "pack_data" /\ g_queue_capacity > 0) =>
               IF Need > kMaxDatagramBytes
               THEN /\ last_op.tx.out = <<>>
                    /\ last_op.tx.pack_failures = 1
                    /\ last_op.tx.size = 0
               ELSE /\ Len(last_op.tx.out) = 1
                    /\ last_op.tx.out[1].len = Need
                    /\ last_op.tx.pack_failures = 0

C30_Witness ==
    /\ last_op.op = "pack_data"
    /\ last_op.out_len = Need - 1
    /\ last_op.packet = <<>>
    /\ g_queue_capacity > 0
    /\ Need > kMaxDatagramBytes
    /\ last_op.tx.out = <<>>
    /\ last_op.tx.pack_failures = 1

(***************************************************************************)
(* C31  parse_cmd: what is rejected, and the unknown command.              *)
(***************************************************************************)
(* The command parsed by a parse_cmd step is known to the node. *)
KnownCmd == last_op.m.cmd_id \in {kCmdIdentify, kCmdSyncClock}

(* The datagram of a parse_cmd step holds the whole 13-byte header, for    *)
(* this node, with the right msg_type and proto_version.                   *)
HeaderAccepted ==
    /\ Len(last_op.data) >= 13
    /\ last_op.damage \notin {"type", "version", "client"}

(* The trailer of a known command is all there. *)
TrailerComplete == Len(last_op.data) >= last_op.full

(* C31: parse_cmd fails on a datagram shorter than the Cmd header, on a    *)
(* msg_type or proto_version mismatch, on another node's client_id and on  *)
(* a truncated trailer of a known command; otherwise it succeeds with the  *)
(* fields of the command, and for an unknown cmd_id with a complete header *)
(* it succeeds and yields (cmd_id, cmd_seq).                               *)
C31_ParseCmd ==
    (last_op.op = "parse_cmd") =>
        /\ last_op.parsed.ok =
               (HeaderAccepted /\ (KnownCmd => TrailerComplete))
        /\ last_op.parsed.ok =>
               /\ last_op.parsed.cmd_id = last_op.m.cmd_id
               /\ last_op.parsed.cmd_seq = last_op.m.cmd_seq
               /\ last_op.parsed.identify_ms = last_op.m.identify_ms
               /\ last_op.parsed.server_time_us = last_op.m.server_time_us

C31_Witness ==
    /\ last_op.op = "parse_cmd"
    /\ last_op.m.cmd_id = 255
    /\ last_op.damage = "intact"
    /\ Len(last_op.data) = 13
    /\ last_op.parsed.ok
    /\ last_op.parsed.cmd_id = 255
    /\ last_op.parsed.cmd_seq = <<4660, 22136>>

(***************************************************************************)
(* C32  A sent frame stays at the front.                                   *)
(***************************************************************************)
(* The frame with the fields of f, marked as sent at time t. *)
MarkedSent(f, t) == [f EXCEPT !.transmitted = TRUE, !.last_tx_ms = t]

C32_Step ==
    (last_op'.op = "tx" /\ wire_out' # <<>>) =>
        /\ g_q_size > 0
        /\ g_q_size' = g_q_size
        /\ g_q_tail' = g_q_tail
        /\ g_q_head' = g_q_head
        /\ Len(wire_out') = 1
        /\ wire_out'[1].seq = QueueSeq[1].seq
        /\ wire_out'[1].at = now_ms
        /\ QueueSeq'[1] = MarkedSent(QueueSeq[1], now_ms)
        /\ \A i \in 2 .. g_q_size : QueueSeq'[i] = QueueSeq[i]

(* C32: a successful send of service_tx marks the front frame transmitted  *)
(* with last_tx_ms equal to the time read for the send and removes         *)
(* nothing: the frame is still the front of the queue, its seq, t0_us and  *)
(* samples are as before, and so are the size of the queue and the frames  *)
(* behind it.                                                              *)
C32_SentFrameStays == [][C32_Step]_vars

(* A first send with a second frame queued behind the sent one. *)
C32_Witness ==
    /\ last_op.op = "tx"
    /\ last_op.ev # <<>>
    /\ last_op.ev[1] = "sent"
    /\ g_q_size >= 2
    /\ QueueSeq[1].transmitted
    /\ QueueSeq[1].last_tx_ms = now_ms
    /\ now_ms > 0
    /\ last_data # <<>>
    /\ last_data.seq = QueueSeq[1].seq
    /\ ~QueueSeq[2].transmitted

(***************************************************************************)
(* C33  DataAck on either channel; how many datagrams a tick reads.        *)
(***************************************************************************)
(* d is a well-formed DataAck addressed to this node. *)
ValidDataAck(d) ==
    /\ d.len >= 12
    /\ d.msg_type = 5
    /\ d.proto_version = 1
    /\ d.client_id = g_client_id

(* The sequence numbers queued before the step that no valid DataAck among *)
(* the datagrams pkts covers.                                              *)
NotCoveredBy(pkts) ==
    {QueueSeq[k].seq : k \in {j \in 1 .. g_q_size :
        \A i \in 1 .. Len(pkts) :
            ValidDataAck(pkts[i]) =>
                ~Covered(QueueSeq[j].seq, pkts[i].last_seq_received)}}

(* The last_seq_received of the valid DataAck datagrams among pkts. *)
ValidAcks(pkts) ==
    {pkts[i].last_seq_received : i \in {j \in 1 .. Len(pkts) : ValidDataAck(pkts[j])}}

(* The datagram a single read returns, as a sequence of at most one. *)
Oldest(pkts) == IF pkts = <<>> THEN <<>> ELSE <<pkts[1]>>

C33_Step ==
    /\ last_op'.op = "data_rx" =>
           /\ data_pending' = <<>>
           /\ control_pending' = control_pending
           /\ last_op'.acks = ValidAcks(data_pending)
           /\ SeqsOf(QueueSeq') = NotCoveredBy(data_pending)
    /\ last_op'.op = "control_rx" =>
           /\ data_pending' = data_pending
           /\ Len(control_pending') = (IF control_pending = <<>> THEN 0
                                       ELSE Len(control_pending) - 1)
           /\ \A i \in 1 .. Len(control_pending') :
                  control_pending'[i] = control_pending[i + 1]
           /\ last_op'.acks = ValidAcks(Oldest(control_pending))
           /\ SeqsOf(QueueSeq') = NotCoveredBy(Oldest(control_pending))

(* C33: a valid DataAck addressed to this node trims the queue by its      *)
(* last_seq_received on the data channel and on the control channel alike; *)
(* service_data_rx reads every datagram waiting on the data socket in the  *)
(* call, service_control_rx reads at most one datagram of the control      *)
(* socket and leaves the others waiting.                                   *)
C33_DataAckOnEitherChannel == [][C33_Step]_vars

(* A DataAck read from the control socket trimmed the queue while another  *)
(* datagram stays waiting behind it.                                       *)
C33_Witness ==
    /\ last_op.op = "control_rx"
    /\ last_op.rx.msg_type = 5
    /\ last_op.trimmed # {}
    /\ control_pending # <<>>
    /\ g_q_size > 0

(* Two acknowledgments waiting on the data socket were both applied in one *)
(* call.                                                                   *)
C33_WitnessBatch ==
    /\ last_op.op = "data_rx"
    /\ Cardinality(last_op.acks) = 2
    /\ Cardinality(last_op.trimmed) = 2

(***************************************************************************)
(* C34  The count of consecutive sensor errors.                            *)
(***************************************************************************)
(* A read failed and no reinitialization succeeded in the step. *)
FailedRead ==
    /\ g_sensor_read_errors' = g_sensor_read_errors + 1
    /\ g_sensor_reinit_success' = g_sensor_reinit_success

(* C34: the count of consecutive sensor I/O errors saturates: a failed     *)
(* read adds 1 to it below 255 and leaves it at 255, so that it never      *)
(* falls below kSensorReinitErrorThreshold while the errors go on.         *)
C34_Saturates ==
    [][FailedRead =>
          /\ g_sensor_consecutive_errors' =
                 (IF g_sensor_consecutive_errors = 255 THEN 255
                  ELSE g_sensor_consecutive_errors + 1)
          /\ (g_sensor_consecutive_errors >= kSensorReinitErrorThreshold =>
                 g_sensor_consecutive_errors' >= kSensorReinitErrorThreshold)]_vars

(* After 256 failed reads in a row, all of them before the first cooldown  *)
(* was over, the count is 0 again and no reinitialization was attempted.   *)
C34_Witness ==
    /\ g_sensor_read_errors = 256
    /\ g_sensor_consecutive_errors = 0
    /\ g_sensor_reinit_attempts = 0
    /\ g_sensor_ok
    /\ now_ms < kSensorReinitCooldownMs

(***************************************************************************)
(* C35  Recovery after a failed reinitialization.                          *)
(***************************************************************************)
(* sample_once() runs with the sensor marked failed by a reinitialization  *)
(* attempt, a cooldown or more after that attempt.                         *)
RetryIsDue ==
    /\ last_op'.op = "sample"
    /\ ~g_sensor_ok
    /\ g_sensor_reinit_attempts > 0
    /\ now_ms - g_last_sensor_reinit_ms >= kSensorReinitCooldownMs

(* C35: after a reinitialization attempt has failed, a further attempt is  *)
(* made once the cooldown has elapsed, so that a sensor that becomes       *)
(* healthy again is put back into service.                                 *)
C35_KeepsRetrying ==
    [][RetryIsDue => g_sensor_reinit_attempts' = g_sensor_reinit_attempts + 1]_vars

(* Once g_sensor_ok is false nothing reads the sensor or tries to          *)
(* initialize it again, and no sample is taken.                            *)
C35_HaltedForGood ==
    [][~g_sensor_ok =>
          /\ UNCHANGED sensor_vars
          /\ UNCHANGED <<g_build_count, build_vars, queue_vars, g_next_seq>>]_vars

(* Two cooldowns after the one attempt, which failed, the sensor is still  *)
(* out of service.                                                         *)
C35_Witness ==
    /\ ~g_sensor_ok
    /\ g_sensor_reinit_attempts = 1
    /\ g_sensor_reinit_success = 0
    /\ now_ms - g_last_sensor_reinit_ms >= 2 * kSensorReinitCooldownMs
    /\ last_op.op = "sample"

(***************************************************************************)
(* C36  The order of the services within a tick.                           *)
(***************************************************************************)
(* The place of a service in the order of the architecture: link recovery, *)
(* the sampling scheduler, the transport service (transmission and the two *)
(* inbound sockets), the periodic Hello.  0 for what has no place in it.   *)
Stage(op) ==
    IF op = "wifi_service" THEN 1
    ELSE IF op = "sampling" THEN 2
    ELSE IF op \in {"tx", "data_rx", "control_rx"} THEN 3
    ELSE IF op = "hello" THEN 4
    ELSE 0

(* C36: within a tick link recovery is polled first, then the sampling     *)
(* scheduler runs, then the transport service transmits and processes the  *)
(* inbound data acknowledgments and commands, and only then the periodic   *)
(* Hello: no service is followed in its tick by one of an earlier stage.   *)
C36_TickOrder ==
    [][(Stage(last_op.op) > 0 /\ Stage(last_op'.op) > 0) => Stage(last_op.op) <= Stage(last_op'.op)]_vars

(* The order loop() has: the data acknowledgments are read before the      *)
(* sampling scheduler runs, and the commands after the Hello.              *)
C36_LoopOrder ==
    [][/\ last_op'.op = "data_rx" => last_op.op = "wifi_service"
       /\ last_op'.op = "sampling" => last_op.op = "data_rx"
       /\ last_op'.op = "tx" => last_op.op = "sampling"
       /\ last_op'.op = "hello" => last_op.op = "tx"
       /\ last_op'.op = "control_rx" => last_op.op = "hello"
       /\ last_op'.op = "blink" => last_op.op = "control_rx"]_vars

(* service_data_rx(), the first service after service_wifi(), has removed  *)
(* an acknowledged frame from a full queue before the scheduler ran.       *)
C36_Witness ==
    /\ last_op.op = "data_rx"
    /\ last_op.trimmed # {}
    /\ g_q_size = g_queue_capacity - 1
    /\ now_ms > 0

(***************************************************************************)
(* C37  The queue capacity.                                                *)
(***************************************************************************)
(* The largest capacity from the floor to target that a heap with room for *)
(* heap_frames frames can hold, 0 if there is none.                        *)
LargestFit(target, heap_frames) ==
    LET fits == {c \in kFrameQueueLenMin .. target : c <= heap_frames}
    IN  IF fits = {} THEN 0 ELSE CHOOSE c \in fits : \A d \in fits : d <= c

(* The allocation loop of setup() finds it, for every target from the      *)
(* floor to MaxQueueLen and every heap.                                    *)
ChosenAtStartup ==
    \A target \in kFrameQueueLenMin .. MaxQueueLen, heap_frames \in 0 .. MaxQueueLen + 1 :
        setup_queue_capacity(target, heap_frames) = LargestFit(target, heap_frames)

(* A step of a node that has no queue. *)
NoQueueStep ==
    /\ g_q_size' = 0
    /\ QueueSeq' = <<>>
    /\ removed' = {}
    /\ g_next_seq' = g_next_seq
    /\ wire_out' = <<>>
    /\ last_data' = <<>>
    /\ IF frames_built' # frames_built
       THEN /\ g_queue_overflow_drops' = g_queue_overflow_drops + 1
            /\ g_build_count' = 0
       ELSE g_queue_overflow_drops' = g_queue_overflow_drops

(* C37: the queue capacity is chosen once at startup, the largest value    *)
(* from the floor to the target whose allocation succeeds, and never       *)
(* changes; if not even the floor can be allocated it is 0, and then every *)
(* completed frame is counted as an overflow drop and consumes no sequence *)
(* number, and nothing is ever queued or transmitted.                      *)
C37_Step ==
    /\ ChosenAtStartup
    /\ g_queue_capacity \in {0} \cup (kFrameQueueLenMin .. kFrameQueueLenTarget)
    /\ g_queue_capacity' = g_queue_capacity
    /\ g_queue_capacity = 0 => NoQueueStep

C37_CapacityChosenOnce == [][C37_Step]_vars

(* Without a queue the node keeps sampling: two frames were completed and  *)
(* dropped, the third is under construction, and time has passed.          *)
C37_Witness ==
    /\ g_queue_capacity = 0
    /\ g_queue_overflow_drops = 2
    /\ frames_built = 2
    /\ g_build_count = 1
    /\ g_next_seq = <<0, 0>>
    /\ now_ms > 0
    /\ last_op.op = "tx"

(***************************************************************************)
(* C38  The queue holds a run of consecutive sequence numbers.             *)
(***************************************************************************)
(* The frames carry consecutive sequence numbers that end right below      *)
(* next_seq.                                                               *)
Consecutive(frames, next_seq) ==
    /\ \A i \in 1 .. Len(frames) - 1 : frames[i + 1].seq = U32Add(frames[i].seq, U32(1))
    /\ Len(frames) > 0 => frames[Len(frames)].seq = U32Sub(next_seq, U32(1))

(* The node after 2^32 - 1 frames, all acknowledged, with a frame complete *)
(* in the build buffer.                                                    *)
BeforeWrap ==
    [CurS EXCEPT !.queue = [i \in 0 .. g_queue_capacity - 1 |-> NoFrame],
                 !.head = 0, !.tail = 0, !.size = 0,
                 !.next_seq = <<Half - 1, Half - 1>>,
                 !.build_count = kFrameSamples]

(* The frames 2^32 - 1, 0, 1, ... put into the queue from there, with the  *)
(* evictions of a full queue, and then the acknowledgment of 2^32 - 1.     *)
RECURSIVE AcrossWrap(_, _)
AcrossWrap(st, n) ==
    LET q == enqueue_frame([st EXCEPT !.build_count = kFrameSamples])
        acked == ack_data_frames([queue |-> q.queue, tail |-> q.tail, size |-> q.size], <<Half - 1, Half - 1>>)
    IN  /\ Consecutive(FramesOf(q), q.next_seq)
        /\ Consecutive(FramesOf(acked), q.next_seq)
        /\ q.next_seq = U32Add(st.next_seq, U32(1))
        /\ n > 1 => AcrossWrap(q, n - 1)

(* C38: whenever the queue is not empty, its frames from front to back     *)
(* carry consecutive sequence numbers (each the previous plus 1 mod 2^32)  *)
(* and the newest frame's is next_seq - 1: neither an eviction nor an      *)
(* acknowledgment leaves a gap inside the queue.                           *)
C38_ConsecutiveSeqs ==
    /\ Consecutive(QueueSeq, g_next_seq)
    /\ g_queue_capacity > 0 => AcrossWrap(BeforeWrap, g_queue_capacity + 1)

(* A full queue after the eviction of frame 0 and a transmission: frames 1 *)
(* and 2, the next number is 3.                                            *)
C38_Witness ==
    /\ g_q_size = 2
    /\ g_queue_overflow_drops = 1
    /\ <<0, 0>> \in removed
    /\ QueueSeq[1].seq = <<0, 1>>
    /\ QueueSeq[1].transmitted
    /\ QueueSeq[2].seq = <<0, 2>>
    /\ g_next_seq = <<0, 3>>

(* Frames 1 and 2 after the acknowledgment of frame 0, nothing evicted. *)
C38_WitnessAck ==
    /\ g_q_size = 2
    /\ g_queue_overflow_drops = 0
    /\ <<0, 0>> \in removed
    /\ QueueSeq[1].seq = <<0, 1>>
    /\ g_next_seq = <<0, 3>>

(***************************************************************************)
(* C39  Sample-slot accounting.                                            *)
(***************************************************************************)
(* The samples taken since boot, and the sample steps by which the due     *)
(* time has advanced since setup() set it to the time of boot, 0.          *)
SamplesTaken == frames_built * kFrameSamples + g_build_count

SlotsPassed == g_next_sample_due_us \div step_us

(* C39: the samples taken plus the missed-sample counter equal the number  *)
(* of sample steps the due time has advanced since boot: every due slot is *)
(* counted exactly once, as taken or as missed.                            *)
C39_SlotAccounting ==
    SamplesTaken + g_sampling_missed_samples = SlotsPassed

(* What service_sampling() does: a call in which no read fails counts each *)
(* slot once; a call that ends on a failed read counts that slot twice,    *)
(* once in the loop and once among the skipped steps.                      *)
C39_FailedReadCountedTwice ==
    [][last_op'.op = "sampling" =>
          /\ SamplesTaken' = SamplesTaken + last_op'.taken
          /\ SlotsPassed' = SlotsPassed + last_op'.taken + last_op'.skipped
          /\ g_sampling_missed_samples' = g_sampling_missed_samples + last_op'.skipped + (IF last_op'.starved THEN 1 ELSE 0)
          /\ last_op'.starved => last_op'.skipped >= 1]_vars

(* The first call of service_sampling(), at boot, got no sample: one slot  *)
(* has passed and two samples are counted as missed.                       *)
C39_Witness ==
    /\ last_op.op = "sampling"
    /\ last_op.starved
    /\ SamplesTaken = 0
    /\ SlotsPassed = 1
    /\ g_sampling_missed_samples = 2

(***************************************************************************)
(* C40  An acknowledgment removes only frames that were sent.              *)
(***************************************************************************)
(* service_data_rx() removed only frames of which a Data datagram has left *)
(* the node.                                                               *)
OnlySentRemoved ==
    last_op'.op = "data_rx" =>
        /\ last_op'.trimmed \subseteq net_data
        /\ \A i \in 1 .. g_q_size :
               QueueSeq[i].seq \in last_op'.trimmed => QueueSeq[i].transmitted

(* C40 as stated: the collector acknowledges only sequence numbers of Data *)
(* datagrams it received; however late, often and out of order the         *)
(* acknowledgments arrive, every frame that ack_data_frames removes has    *)
(* been transmitted at least once.                                         *)
C40_AnyDelay ==
    [][last_op'.op = "data_rx" /\ last_op'.acks \subseteq net_ack => OnlySentRemoved]_vars

(* C40, amended: the same for acknowledgments that arrive while their      *)
(* sequence number is among the 2^31 that precede g_next_seq.              *)
C40_OnlySentFramesRemoved ==
    [][(last_op'.op = "data_rx" /\ last_op'.acks \subseteq net_ack /\ \A s \in last_op'.acks : InWindow(s)) => OnlySentRemoved]_vars

(* The acknowledgments of frames 1 and 0 were read in this order, that of  *)
(* frame 0 not for the first time: frame 1 was removed, and frame 2, which *)
(* was never sent, stays.                                                  *)
C40_Witness ==
    /\ last_op.op = "data_rx"
    /\ last_op.acks = {<<0, 0>>, <<0, 1>>}
    /\ last_op.trimmed = {<<0, 1>>}
    /\ g_q_size = 1
    /\ QueueSeq[1].seq = <<0, 2>>
    /\ ~QueueSeq[1].transmitted
    /\ <<0, 2>> \notin net_data

(* The acknowledgment of frame 0 arrived again 2^31 frames later and       *)
(* removed frame 2^31 + 1, which was never sent.                           *)
C40_WitnessStale ==
    /\ last_op.op = "data_rx"
    /\ last_op.acks = {<<0, 0>>}
    /\ last_op.trimmed = {<<Half \div 2, 1>>}
    /\ <<Half \div 2, 1>> \notin net_data

====
